---- MODULE Spec2Model ----
(***************************************************************************)
(* A model of the request-composition and exchange pipeline of open-auth2: *)
(* RequestBuilder and the extension wrappers (Stateful, WithPkceChallenge, *)
(* WithPkceVerifier, WithAuthorizationDetails, WithAccessToken), the       *)
(* HttpRequest::send pipeline, the token and pushed-authorization          *)
(* endpoints and PushedAuthorizationResponse::for_endpoint; and of the     *)
(* validated string types (AccessToken, Code, State, ClientId, ScopeToken, *)
(* Scope, ScopeBuf) and the PKCE code verifier and challenge.              *)
(*                                                                         *)
(* Text is modelled as a sequence of chunks.  A chunk is either a run of   *)
(* characters that form-urlencoding leaves alone (letters, digits, '-',    *)
(* '.', '_', '*'), written as one TLA+ string, or a single character that  *)
(* the encoding rewrites or that separates query parameters.               *)
(***************************************************************************)
EXTENDS Integers, Sequences, FiniteSets, TLC

VARIABLES
    endpoint0,   \* the endpoint the builder was created with
    base0,       \* the base request the builder was created with
    calls,       \* the with_* calls made on the builder, in call order
    builder,     \* RequestBuilder { endpoint, request }
    pc,          \* position of the caller: composing, the stages of send, done
    stages,      \* the stages of send that have run, in order, each with
                 \* the outcome it had
    built,       \* the http::Request while it is being built and encoded
    sent,        \* every request handed to HttpClient::send, in order
    reply,       \* what HttpClient::send returned
    decoded,     \* what decode_response returned, and what it inspected
    result,      \* what send / into_redirect_uri / for_endpoint returned
    redirect,    \* the URI built by for_endpoint after a PAR exchange
    input,       \* what a caller hands to a constructor or a function of
                 \* the string types and of PKCE
    made,        \* what the last such call returned
    scope        \* the contents of a ScopeBuf

vars == <<endpoint0, base0, calls, builder, pc, stages, built, sent, reply,
          decoded, result, redirect, input, made, scope>>

\* The variables of an exchange, which the calls on the string types and on
\* PKCE leave alone.
exchangeVars == <<endpoint0, base0, calls, builder, pc, stages, built, sent,
                  reply, decoded, result, redirect>>

\* The longest wrapper chain the model composes.
MaxLayers == 2

----------------------------------------------------------------------------
(* Results: Ok(v), Err(e), or a panic (an unwrap of an Err).               *)

Ok(v) == [tag |-> "Ok", val |-> v]
Err(e) == [tag |-> "Err", val |-> e]
Panic(why) == [tag |-> "Panic", val |-> why]
NoResult == [tag |-> "None", val |-> "none"]

RequestError(msg) == [kind |-> "Request", msg |-> msg, status |-> 0]
ResponseError(msg) == [kind |-> "Response", msg |-> msg, status |-> 0]
ServerError(status) == [kind |-> "ServerError", msg |-> "", status |-> status]

----------------------------------------------------------------------------
(* application/x-www-form-urlencoded, as serde_html_form writes and reads  *)
(* it.                                                                     *)

\* The escape of each character the byte serializer rewrites.
EscapeOf ==
    [c \in {" ", ":", "/", "&", "=", "+", "%", "~", "[", "]", "{", "}"} |->
        CASE c = " " -> "+"
          [] c = ":" -> "%3A"
          [] c = "/" -> "%2F"
          [] c = "&" -> "%26"
          [] c = "=" -> "%3D"
          [] c = "+" -> "%2B"
          [] c = "%" -> "%25"
          [] c = "~" -> "%7E"
          [] c = "[" -> "%5B"
          [] c = "]" -> "%5D"
          [] c = "{" -> "%7B"
          [] c = "}" -> "%7D"]

\* What each escape decodes to; a space also arrives as %20.
UnescapeOf ==
    [e \in {"+", "%20", "%3A", "%2F", "%26", "%3D", "%2B", "%25", "%7E",
            "%5B", "%5D", "%7B", "%7D"} |->
        CASE e = "+" -> " "
          [] e = "%20" -> " "
          [] e = "%3A" -> ":"
          [] e = "%2F" -> "/"
          [] e = "%26" -> "&"
          [] e = "%3D" -> "="
          [] e = "%2B" -> "+"
          [] e = "%25" -> "%"
          [] e = "%7E" -> "~"
          [] e = "%5B" -> "["
          [] e = "%5D" -> "]"
          [] e = "%7B" -> "{"
          [] e = "%7D" -> "}"]

FormEncodeStr(s) ==
    [i \in 1..Len(s) |-> IF s[i] \in DOMAIN EscapeOf THEN EscapeOf[s[i]] ELSE s[i]]

FormDecodeStr(s) ==
    [i \in 1..Len(s) |-> IF s[i] \in DOMAIN UnescapeOf THEN UnescapeOf[s[i]] ELSE s[i]]

\* A parameter is a pair <<key, value>> of texts.
RECURSIVE FormEncodePairs(_)
FormEncodePairs(pairs) ==
    IF pairs = <<>> THEN <<>>
    ELSE LET p == Head(pairs)
             one == FormEncodeStr(p[1]) \o <<"=">> \o FormEncodeStr(p[2])
         IN IF Len(pairs) = 1 THEN one
            ELSE one \o <<"&">> \o FormEncodePairs(Tail(pairs))

\* The index of the first chunk of s equal to c, or 0.
RECURSIVE IndexOf(_, _, _)
IndexOf(s, c, from) ==
    IF from > Len(s) THEN 0
    ELSE IF s[from] = c THEN from
    ELSE IndexOf(s, c, from + 1)

\* The segments of s between the separators c.
RECURSIVE SplitOn(_, _)
SplitOn(s, c) ==
    LET i == IndexOf(s, c, 1)
    IN IF i = 0 THEN <<s>>
       ELSE <<SubSeq(s, 1, i - 1)>> \o SplitOn(SubSeq(s, i + 1, Len(s)), c)

\* One name=value segment; a segment without '=' has the empty value.
ParsePair(seg) ==
    LET i == IndexOf(seg, "=", 1)
    IN IF i = 0 THEN <<FormDecodeStr(seg), <<>>>>
       ELSE <<FormDecodeStr(SubSeq(seg, 1, i - 1)),
              FormDecodeStr(SubSeq(seg, i + 1, Len(seg)))>>

RECURSIVE ParseSegments(_)
ParseSegments(segs) ==
    IF segs = <<>> THEN <<>>
    ELSE IF Head(segs) = <<>> THEN ParseSegments(Tail(segs))
    ELSE <<ParsePair(Head(segs))>> \o ParseSegments(Tail(segs))

\* form_urlencoded::parse: the parameters of a query, in order.
FormParse(wire) == ParseSegments(SplitOn(wire, "&"))

Keys(pairs) == {pairs[i][1] : i \in DOMAIN pairs}
ParamSet(pairs) == {pairs[i] : i \in DOMAIN pairs}
Count(pairs, k) == Cardinality({i \in DOMAIN pairs : pairs[i][1] = k})
CountPair(pairs, p) == Cardinality({i \in DOMAIN pairs : pairs[i] = p})

----------------------------------------------------------------------------
(* HTTP headers: http::HeaderMap as a sequence of <<name, value>>.         *)

RECURSIVE HeaderRemove(_, _)
HeaderRemove(h, name) ==
    IF h = <<>> THEN <<>>
    ELSE IF Head(h)[1] = name THEN HeaderRemove(Tail(h), name)
    ELSE <<Head(h)>> \o HeaderRemove(Tail(h), name)

\* An insert that keeps the values the name had and adds the new one.
HeaderInsert_Append(h, name, value) == Append(h, <<name, value>>)

\* HeaderMap::insert: the value replaces every value the name had.
HeaderInsert(h, name, value) == Append(HeaderRemove(h, name), <<name, value>>)

HeaderHas(h, name) == \E i \in DOMAIN h : h[i][1] = name

\* HeaderMap::get: the first value of the name.
HeaderGet(h, name) ==
    LET i == CHOOSE j \in DOMAIN h :
                 h[j][1] = name /\ \A k \in 1..(j - 1) : h[k][1] # name
    IN h[i][2]

HeaderValues(h, name) == {h[i][2] : i \in {j \in DOMAIN h : h[j][1] = name}}

\* HeaderValue::try_from(String) refuses control characters.
ControlChars == {"\n", "\r"}
IsValidHeaderValue(s) == \A i \in DOMAIN s : s[i] \notin ControlChars

StartsWith(s, prefix) ==
    /\ Len(prefix) <= Len(s)
    /\ \A i \in 1..Len(prefix) : s[i] = prefix[i]

APPLICATION_JSON == <<"application", "/", "json">>
APPLICATION_X_WWW_FORM_URLENCODED == <<"application", "/", "x-www-form-urlencoded">>

\* ContentType::VALUE of the three content types.
ContentTypeValue(ct) ==
    CASE ct = "WwwFormUrlEncoded" -> Ok(APPLICATION_X_WWW_FORM_URLENCODED)
      [] ct = "Json" -> Ok(APPLICATION_JSON)
      [] ct = "NoContent" -> NoResult

\* A content type check that wants the whole value equal to the expected one.
expect_content_type_Exact(headers, expected_value) ==
    IF ~HeaderHas(headers, "content-type")
    THEN Err(ResponseError("missing content type"))
    ELSE IF HeaderGet(headers, "content-type") # expected_value
    THEN Err(ResponseError("unexpected content type"))
    ELSE Ok("unit")

expect_content_type(headers, expected_value) ==
    IF ~HeaderHas(headers, "content-type")
    THEN Err(ResponseError("missing content type"))
    ELSE IF ~StartsWith(HeaderGet(headers, "content-type"), expected_value)
    THEN Err(ResponseError("unexpected content type"))
    ELSE Ok("unit")

----------------------------------------------------------------------------
(* Request values: a base request inside a chain of extension wrappers.    *)
(* layers[1] is the innermost wrapper, the last layer the outermost.       *)

Layer(w, some, p, q) == [w |-> w, some |-> some, p |-> p, q |-> q]

Stateful_new(state) ==
    IF state.some THEN Layer("Stateful", TRUE, state.val, <<>>)
    ELSE Layer("Stateful", FALSE, <<>>, <<>>)
WithPkceChallenge_new(pkce) == Layer("WithPkceChallenge", TRUE, pkce.challenge, pkce.method)
WithPkceVerifier_new(code_verifier) == Layer("WithPkceVerifier", TRUE, code_verifier, <<>>)
WithAuthorizationDetails_new(details) == Layer("WithAuthorizationDetails", TRUE, details, <<>>)
WithAccessToken_new(token_type, access_token) ==
    Layer("WithAccessToken", TRUE, token_type, access_token)

Wrap(value, layer) == [value EXCEPT !.layers = Append(@, layer)]
Outer(value) == value.layers[Len(value.layers)]
Inner(value) == [value EXCEPT !.layers = SubSeq(@, 1, Len(@) - 1)]

----------------------------------------------------------------------------
(* serde: a body is the base's fields inside the wrappers that carry a     *)
(* field; every wrapper flattens its inner value after its own fields.     *)

\* The fields a wrapper writes before its flattened inner value.
OwnFields(layer) ==
    CASE layer.w = "Stateful" ->
            IF layer.some THEN Ok(<< <<(<<"state">>), layer.p>> >>) ELSE Ok(<<>>)
      [] layer.w = "WithPkceChallenge" ->
            Ok(<< <<(<<"code_challenge">>), layer.p>>,
                  <<(<<"code_challenge_method">>), layer.q>> >>)
      [] layer.w = "WithPkceVerifier" ->
            Ok(<< <<(<<"code_verifier">>), layer.p>> >>)
      [] layer.w = "WithAuthorizationDetails" ->
            \* a sequence of detail objects: the form serializer writes a
            \* sequence as repeated keys and refuses a structure as a value
            IF layer.p = <<>> THEN Ok(<<>>) ELSE Err("unsupported value")

RECURSIVE Serialize(_)
Serialize(body) ==
    IF body.layers = <<>> THEN Ok(body.base)
    ELSE LET own == OwnFields(Outer(body))
             rest == Serialize(Inner(body))
         IN IF own.tag = "Err" THEN own
            ELSE IF rest.tag = "Err" THEN rest
            ELSE Ok(own.val \o rest.val)

\* WwwFormUrlEncoded::encode: serde_html_form::to_string(value).unwrap()
WwwFormUrlEncoded_encode(body) ==
    LET s == Serialize(body)
    IN IF s.tag = "Err" THEN Panic(s.val) ELSE Ok(FormEncodePairs(s.val))

\* ContentType::encode of the content type ct.
Encode(ct, body) ==
    CASE ct = "WwwFormUrlEncoded" -> WwwFormUrlEncoded_encode(body)
      [] ct = "NoContent" -> Ok(<<>>)

----------------------------------------------------------------------------
(* URIs and queries.                                                       *)

None == [some |-> FALSE, val |-> <<>>]
Some(v) == [some |-> TRUE, val |-> v]

Uri(scheme, authority, path, query) ==
    [scheme |-> scheme, authority |-> authority, path |-> path, query |-> query]

\* UriBuf::set_query(Some(query))
set_query(uri, query) == [uri EXCEPT !.query = Some(query)]

\* uri.query().map(Query::as_str).unwrap_or_default()
QueryOrDefault(uri) == IF uri.query.some THEN uri.query.val ELSE <<>>

\* The keys of the queries the model's endpoint URIs carry, in the byte order
\* BTreeMap<String, String> iterates them in.
KeyOrder ==
    << <<"a">>, <<"client_id">>, <<"flag">>, <<"lang">>, <<"request_uri">>,
       <<"tenant">>, <<"ui_locales">> >>

KeyRank(k) == CHOOSE i \in DOMAIN KeyOrder : KeyOrder[i] = k

RECURSIVE InsertSorted(_, _)
InsertSorted(sorted, p) ==
    IF sorted = <<>> THEN <<p>>
    ELSE IF KeyRank(p[1]) < KeyRank(Head(sorted)[1]) THEN <<p>> \o sorted
    ELSE <<Head(sorted)>> \o InsertSorted(Tail(sorted), p)

RECURSIVE SortByKey(_)
SortByKey(pairs) ==
    IF pairs = <<>> THEN <<>>
    ELSE InsertSorted(SortByKey(Tail(pairs)), Head(pairs))

\* serde_html_form::from_str::<BTreeMap<String, String>>: the entries are
\* grouped by key, and a key with several values is no String.
from_str_BTreeMap(wire) ==
    LET pairs == FormParse(wire)
    IN IF \E k \in Keys(pairs) : Count(pairs, k) > 1
       THEN Err("unsupported value")
       ELSE Ok(SortByKey(pairs))

----------------------------------------------------------------------------
(* RedirectRequest::build_query of the wrappers and of a base request.     *)

EmptyBody(fields) == [base |-> fields, layers |-> <<>>]

\* A Stateful that builds its query on the base parameters alone.
Stateful_build_query_Base(layer, innerQuery) ==
    Wrap(EmptyBody(innerQuery.base), Stateful_new([some |-> layer.some, val |-> layer.p]))

Stateful_build_query(layer, innerQuery) ==
    Wrap(innerQuery, Stateful_new([some |-> layer.some, val |-> layer.p]))

WithPkceChallenge_build_query(layer, innerQuery) ==
    Wrap(innerQuery, WithPkceChallenge_new([challenge |-> layer.p, method |-> layer.q]))

WithPkceVerifier_build_query(layer, innerQuery) ==
    Wrap(innerQuery, WithPkceVerifier_new(layer.p))

WithAuthorizationDetails_build_query(layer, innerQuery) ==
    Wrap(innerQuery, WithAuthorizationDetails_new(layer.p))

\* The wrappers that implement RedirectRequest.
IsRedirectRequest(value) ==
    \A i \in DOMAIN value.layers : value.layers[i].w # "WithAccessToken"

RECURSIVE build_query(_)
build_query(value) ==
    IF value.layers = <<>> THEN EmptyBody(value.base.query)
    ELSE LET layer == Outer(value)
             innerQuery == build_query(Inner(value))
         IN CASE layer.w = "Stateful" -> Stateful_build_query(layer, innerQuery)
              [] layer.w = "WithPkceChallenge" ->
                    WithPkceChallenge_build_query(layer, innerQuery)
              [] layer.w = "WithPkceVerifier" ->
                    WithPkceVerifier_build_query(layer, innerQuery)
              [] layer.w = "WithAuthorizationDetails" ->
                    WithAuthorizationDetails_build_query(layer, innerQuery)

\* RedirectRequest::redirect_uri: the endpoint URI's own parameters, then the
\* request's, form-encoded into the query.
redirect_uri(value, endpoint) ==
    LET args == from_str_BTreeMap(QueryOrDefault(endpoint.uri))
        params == Serialize(build_query(value))
    IN IF args.tag = "Err" THEN Panic(args.val)
       ELSE IF params.tag = "Err" THEN Panic(params.val)
       ELSE LET query == FormEncodePairs(args.val \o params.val)
            IN IF query # <<>> THEN Ok(set_query(endpoint.uri, query))
               ELSE Ok(endpoint.uri)

\* PushedAuthorizationResponse::for_endpoint: client_id, request_uri, then the
\* authorization URI's own parameters (the flattened ext map).
for_endpoint(response, endpoint) ==
    LET ext == from_str_BTreeMap(QueryOrDefault(endpoint.uri))
    IN IF ext.tag = "Err" THEN Panic(ext.val)
       ELSE LET query == FormEncodePairs(
                    << <<(<<"client_id">>), endpoint.client_id>>,
                       <<(<<"request_uri">>), response.request_uri>> >> \o ext.val)
            IN IF query # <<>> THEN Ok(set_query(endpoint.uri, query))
               ELSE Ok(endpoint.uri)

----------------------------------------------------------------------------
(* JSON response bodies.  A body is malformed, or an object: a sequence of *)
(* <<member name, value>> with text and number values.                     *)

JStr(s) == [t |-> "str", s |-> s, n |-> 0]
JNum(n) == [t |-> "num", s |-> <<>>, n |-> n]
JsonObject(members) == [wellformed |-> TRUE, members |-> members]
Malformed == [wellformed |-> FALSE, members |-> <<>>]

HasMember(obj, name) == \E i \in DOMAIN obj.members : obj.members[i][1] = name
Member(obj, name) ==
    obj.members[CHOOSE i \in DOMAIN obj.members : obj.members[i][1] = name][2]

\* iref: a URI starts with a scheme and a colon.
IsUri(s) == Len(s) >= 2 /\ s[2] = ":" /\ s[1] \notin DOMAIN EscapeOf

\* is_vschar on every chunk: the control characters are the chunks outside it.
IsVschars(s) == \A i \in DOMAIN s : s[i] \notin ControlChars

\* AccessToken::validate_bytes
AccessToken_validate(s) == IsVschars(s) /\ Len(s) > 0

\* serde_json::from_slice::<PushedAuthorizationResponse>
from_slice_PushedAuthorizationResponse(body) ==
    IF ~body.wellformed THEN Err("expected value")
    ELSE IF ~HasMember(body, "request_uri") THEN Err("missing field request_uri")
    ELSE IF Member(body, "request_uri").t # "str" \/ ~IsUri(Member(body, "request_uri").s)
    THEN Err("invalid value for request_uri")
    ELSE IF ~HasMember(body, "expires_in") THEN Err("missing field expires_in")
    ELSE IF Member(body, "expires_in").t # "num" THEN Err("invalid type for expires_in")
    ELSE Ok([request_uri |-> Member(body, "request_uri").s,
             expires_in |-> Member(body, "expires_in").n])

\* serde_json::from_slice::<TokenResponse<String, _>>
from_slice_TokenResponse(body) ==
    IF ~body.wellformed THEN Err("expected value")
    ELSE IF ~HasMember(body, "access_token") THEN Err("missing field access_token")
    ELSE IF Member(body, "access_token").t # "str"
            \/ ~AccessToken_validate(Member(body, "access_token").s)
    THEN Err("invalid value for access_token")
    ELSE IF ~HasMember(body, "token_type") THEN Err("missing field token_type")
    ELSE IF Member(body, "token_type").t # "str" THEN Err("invalid type for token_type")
    ELSE Ok([access_token |-> Member(body, "access_token").s,
             token_type |-> Member(body, "token_type").s,
             expires_in |-> IF HasMember(body, "expires_in")
                            THEN Some(Member(body, "expires_in").n) ELSE None])

----------------------------------------------------------------------------
(* The base requests: their HttpRequest implementations.                   *)

HttpRequestOf(method, uri, headers, body) ==
    [method |-> method, uri |-> uri, headers |-> headers, body |-> body]

\* Serialize for PreAuthorizedCodeTokenRequest: the grant_type tag, then the
\* fields, the None ones skipped.
GRANT_TYPE_PRE_AUTHORIZED_CODE ==
    <<"urn", ":", "ietf", ":", "params", ":", "oauth", ":", "grant-type", ":",
      "pre-authorized_code">>

PreAuthorizedCodeTokenRequest_fields(self) ==
    << <<(<<"grant_type">>), GRANT_TYPE_PRE_AUTHORIZED_CODE>> >>
    \o (IF self.client_id.some THEN << <<(<<"client_id">>), self.client_id.val>> >> ELSE <<>>)
    \o << <<(<<"pre-authorized_code">>), self.pre_authorized_code>> >>
    \o (IF self.tx_code.some THEN << <<(<<"tx_code">>), self.tx_code.val>> >> ELSE <<>>)

PreAuthorizedCodeTokenRequest_build_request(self, endpoint) ==
    Ok(HttpRequestOf("POST", endpoint.uri, <<>>,
                     EmptyBody(PreAuthorizedCodeTokenRequest_fields(self))))

\* The status a token response must have.
StatusOK == 200
\* The status a pushed authorization response must have.
StatusCREATED == 201

\* A decode result, with the parts of the response it looked at.
Decoded(res, inspected) == [res |-> res, inspected |-> inspected]

PreAuthorizedCodeTokenRequest_decode_response(self, endpoint, response) ==
    IF response.status # StatusOK
    THEN Decoded(Err(ServerError(response.status)), <<"status">>)
    ELSE LET ct == expect_content_type(response.headers, APPLICATION_JSON)
         IN IF ct.tag = "Err" THEN Decoded(ct, <<"status", "content_type">>)
            ELSE LET body == from_slice_TokenResponse(response.body)
                 IN IF body.tag = "Err"
                    THEN Decoded(Err(ResponseError(body.val)),
                                 <<"status", "content_type", "body">>)
                    ELSE Decoded(Ok([response EXCEPT !.body = body.val]),
                                 <<"status", "content_type", "body">>)

PreAuthorizedCodeTokenRequest_process_response(self, endpoint, response) ==
    Ok(response.body)

\* A build_request that posts the parameters of the innermost request alone.
Pushed_build_request_BaseOnly(self, endpoint) ==
    Ok(HttpRequestOf("POST", endpoint.uri, <<>>, EmptyBody(self.inner.base.query)))

Pushed_build_request(self, endpoint) ==
    Ok(HttpRequestOf("POST", endpoint.uri, <<>>, build_query(self.inner)))

\* A decode that takes every success status this crate knows for the PAR one.
Pushed_decode_response_Any2xx(self, endpoint, response) ==
    IF response.status \notin {StatusOK, StatusCREATED}
    THEN Decoded(Err(ServerError(response.status)), <<"status">>)
    ELSE LET ct == expect_content_type(response.headers, APPLICATION_JSON)
         IN IF ct.tag = "Err" THEN Decoded(ct, <<"status", "content_type">>)
            ELSE LET body == from_slice_PushedAuthorizationResponse(response.body)
                 IN IF body.tag = "Err"
                    THEN Decoded(Err(ResponseError(body.val)),
                                 <<"status", "content_type", "body">>)
                    ELSE Decoded(Ok([response EXCEPT !.body = body.val]),
                                 <<"status", "content_type", "body">>)

Pushed_decode_response(self, endpoint, response) ==
    IF response.status # StatusCREATED
    THEN Decoded(Err(ServerError(response.status)), <<"status">>)
    ELSE LET ct == expect_content_type(response.headers, APPLICATION_JSON)
         IN IF ct.tag = "Err" THEN Decoded(ct, <<"status", "content_type">>)
            ELSE LET body == from_slice_PushedAuthorizationResponse(response.body)
                 IN IF body.tag = "Err"
                    THEN Decoded(Err(ResponseError(body.val)),
                                 <<"status", "content_type", "body">>)
                    ELSE Decoded(Ok([response EXCEPT !.body = body.val]),
                                 <<"status", "content_type", "body">>)

Pushed_process_response(self, endpoint, response) ==
    Ok(response.body)

\* Any other implementation of HttpRequest: each operation returns Ok or an
\* error of its own; `fails` names the operations that fail.
Other_build_request(self, endpoint) ==
    IF "build_request" \in self.fails
    THEN Err(RequestError("build failed"))
    ELSE Ok(HttpRequestOf(self.method, endpoint.uri, self.headers, EmptyBody(self.fields)))

Other_decode_response(self, endpoint, response) ==
    IF "decode_response" \in self.fails
    THEN Decoded(Err(ResponseError("decode failed")), <<"status">>)
    ELSE Decoded(Ok(response), <<"status">>)

Other_process_response(self, endpoint, response) ==
    IF "process_response" \in self.fails
    THEN Err(ResponseError("process failed"))
    ELSE Ok(response.body)

Base_build_request(self, endpoint) ==
    CASE self.kind = "PreAuthorizedCodeTokenRequest" ->
            PreAuthorizedCodeTokenRequest_build_request(self, endpoint)
      [] self.kind = "Pushed" -> Pushed_build_request(self, endpoint)
      [] self.kind = "Other" -> Other_build_request(self, endpoint)

Base_decode_response(self, endpoint, response) ==
    CASE self.kind = "PreAuthorizedCodeTokenRequest" ->
            PreAuthorizedCodeTokenRequest_decode_response(self, endpoint, response)
      [] self.kind = "Pushed" -> Pushed_decode_response(self, endpoint, response)
      [] self.kind = "Other" -> Other_decode_response(self, endpoint, response)

Base_process_response(self, endpoint, response) ==
    CASE self.kind = "PreAuthorizedCodeTokenRequest" ->
            PreAuthorizedCodeTokenRequest_process_response(self, endpoint, response)
      [] self.kind = "Pushed" -> Pushed_process_response(self, endpoint, response)
      [] self.kind = "Other" -> Other_process_response(self, endpoint, response)

\* type ContentType of the base requests.
Base_ContentType(self) ==
    IF self.kind = "Other" THEN self.contentType ELSE "WwwFormUrlEncoded"

----------------------------------------------------------------------------
(* The wrappers' HttpRequest implementations.  Each operation receives the *)
(* wrapper's layer and what the same operation of its inner value returned.*)

\* request.map(|value| W::new(value, extra)) on an Ok, the error otherwise.
MapBody(layer, inner) ==
    IF inner.tag = "Ok" THEN Ok([inner.val EXCEPT !.body = Wrap(@, layer)]) ELSE inner

Stateful_build_request(layer, inner) ==
    MapBody(Stateful_new([some |-> layer.some, val |-> layer.p]), inner)

WithPkceChallenge_build_request(layer, inner) ==
    MapBody(WithPkceChallenge_new([challenge |-> layer.p, method |-> layer.q]), inner)

WithPkceVerifier_build_request(layer, inner) ==
    MapBody(WithPkceVerifier_new(layer.p), inner)

WithAuthorizationDetails_build_request(layer, inner) ==
    MapBody(WithAuthorizationDetails_new(layer.p), inner)

\* format!("{} {}", token_type, access_token).try_into().unwrap()
AuthorizationValue(layer) == layer.p \o <<" ">> \o layer.q

\* A WithAccessToken that appends its header to the values already there.
WithAccessToken_build_request_Append(layer, inner) ==
    IF inner.tag # "Ok" THEN inner
    ELSE IF ~IsValidHeaderValue(AuthorizationValue(layer))
    THEN Panic("invalid header value")
    ELSE Ok([inner.val EXCEPT
                !.headers = Append(@, <<"authorization", AuthorizationValue(layer)>>)])

WithAccessToken_build_request(layer, inner) ==
    IF inner.tag # "Ok" THEN inner
    ELSE IF ~IsValidHeaderValue(AuthorizationValue(layer))
    THEN Panic("invalid header value")
    ELSE Ok([inner.val EXCEPT
                !.headers = HeaderInsert(@, "authorization", AuthorizationValue(layer))])

Wrapper_build_request(layer, inner) ==
    CASE layer.w = "Stateful" -> Stateful_build_request(layer, inner)
      [] layer.w = "WithPkceChallenge" -> WithPkceChallenge_build_request(layer, inner)
      [] layer.w = "WithPkceVerifier" -> WithPkceVerifier_build_request(layer, inner)
      [] layer.w = "WithAuthorizationDetails" ->
            WithAuthorizationDetails_build_request(layer, inner)
      [] layer.w = "WithAccessToken" -> WithAccessToken_build_request(layer, inner)

\* self.value.decode_response(endpoint, response)
Stateful_decode_response(layer, inner) == inner
WithPkceChallenge_decode_response(layer, inner) == inner
WithPkceVerifier_decode_response(layer, inner) == inner
WithAuthorizationDetails_decode_response(layer, inner) == inner
WithAccessToken_decode_response(layer, inner) == inner

Wrapper_decode_response(layer, inner) ==
    CASE layer.w = "Stateful" -> Stateful_decode_response(layer, inner)
      [] layer.w = "WithPkceChallenge" -> WithPkceChallenge_decode_response(layer, inner)
      [] layer.w = "WithPkceVerifier" -> WithPkceVerifier_decode_response(layer, inner)
      [] layer.w = "WithAuthorizationDetails" ->
            WithAuthorizationDetails_decode_response(layer, inner)
      [] layer.w = "WithAccessToken" -> WithAccessToken_decode_response(layer, inner)

\* self.value.process_response(endpoint, http_client, response).await
Stateful_process_response(layer, inner) == inner
WithPkceChallenge_process_response(layer, inner) == inner
WithPkceVerifier_process_response(layer, inner) == inner
WithAuthorizationDetails_process_response(layer, inner) == inner
WithAccessToken_process_response(layer, inner) == inner

Wrapper_process_response(layer, inner) ==
    CASE layer.w = "Stateful" -> Stateful_process_response(layer, inner)
      [] layer.w = "WithPkceChallenge" -> WithPkceChallenge_process_response(layer, inner)
      [] layer.w = "WithPkceVerifier" -> WithPkceVerifier_process_response(layer, inner)
      [] layer.w = "WithAuthorizationDetails" ->
            WithAuthorizationDetails_process_response(layer, inner)
      [] layer.w = "WithAccessToken" -> WithAccessToken_process_response(layer, inner)

RECURSIVE build_request(_, _)
build_request(value, endpoint) ==
    IF value.layers = <<>> THEN Base_build_request(value.base, endpoint)
    ELSE Wrapper_build_request(Outer(value), build_request(Inner(value), endpoint))

RECURSIVE decode_response(_, _, _)
decode_response(value, endpoint, response) ==
    IF value.layers = <<>> THEN Base_decode_response(value.base, endpoint, response)
    ELSE Wrapper_decode_response(Outer(value),
                                 decode_response(Inner(value), endpoint, response))

RECURSIVE process_response(_, _, _)
process_response(value, endpoint, response) ==
    IF value.layers = <<>> THEN Base_process_response(value.base, endpoint, response)
    ELSE Wrapper_process_response(Outer(value),
                                  process_response(Inner(value), endpoint, response))

\* type ContentType = T::ContentType, down to the base request.
ContentType(value) == Base_ContentType(value.base)

----------------------------------------------------------------------------
(* RequestBuilder.                                                         *)

RequestBuilder_new(endpoint, request) == [endpoint |-> endpoint, request |-> request]

\* A map that puts the new wrapper innermost.
Map_Innermost(b, layer) ==
    RequestBuilder_new(b.endpoint, [b.request EXCEPT !.layers = <<layer>> \o @])

\* RequestBuilder::map with the closure |value| W::new(value, extra)
Map(b, layer) == RequestBuilder_new(b.endpoint, Wrap(b.request, layer))

with_state(b, state) == Map(b, Stateful_new(state))
with_pkce_challenge(b, pkce) == Map(b, WithPkceChallenge_new(pkce))
with_pkce_verifier(b, pkce_verifier) == Map(b, WithPkceVerifier_new(pkce_verifier))
with_authorization_details(b, details) == Map(b, WithAuthorizationDetails_new(details))
with_access_token(b, token_type, access_token) ==
    Map(b, WithAccessToken_new(token_type, access_token))

----------------------------------------------------------------------------
(* PKCE: the code verifier, the code challenge and the transform between   *)
(* them.  A verifier or a challenge is a sequence of characters; the       *)
(* random bytes and a SHA-256 digest are sequences of numbers 0..255.      *)

Upper ==
    <<"A", "B", "C", "D", "E", "F", "G", "H", "I", "J", "K", "L", "M",
      "N", "O", "P", "Q", "R", "S", "T", "U", "V", "W", "X", "Y", "Z">>
Lower ==
    <<"a", "b", "c", "d", "e", "f", "g", "h", "i", "j", "k", "l", "m",
      "n", "o", "p", "q", "r", "s", "t", "u", "v", "w", "x", "y", "z">>
Digits == <<"0", "1", "2", "3", "4", "5", "6", "7", "8", "9">>

Range(f) == {f[i] : i \in DOMAIN f}

\* u8::is_ascii_alphanumeric
AsciiAlphanumeric == Range(Upper) \cup Range(Lower) \cup Range(Digits)
is_ascii_alphanumeric(c) == c \in AsciiAlphanumeric

\* The length limits of validate_verifier_or_challenge.
MinCodeLen == 43
MaxCodeLen == 128

\* A validation that stops one character short of the upper limit.
validate_verifier_or_challenge_Short(bytes) ==
    IF Len(bytes) < MinCodeLen \/ Len(bytes) >= MaxCodeLen THEN FALSE
    ELSE \A i \in DOMAIN bytes :
            is_ascii_alphanumeric(bytes[i]) \/ bytes[i] \in {"-", ".", "_", "~"}

validate_verifier_or_challenge(bytes) ==
    IF Len(bytes) < MinCodeLen \/ Len(bytes) > MaxCodeLen THEN FALSE
    ELSE \A i \in DOMAIN bytes :
            is_ascii_alphanumeric(bytes[i]) \/ bytes[i] \in {"-", ".", "_", "~"}

PkceCodeVerifier_validate_bytes(bytes) == validate_verifier_or_challenge(bytes)
PkceCodeChallenge_validate_bytes(bytes) == validate_verifier_or_challenge(bytes)

\* The constructors the StrNewType derive generates: the validated text, or
\* an error that carries it.
PkceCodeVerifier_new(bytes) ==
    IF PkceCodeVerifier_validate_bytes(bytes) THEN Ok(bytes) ELSE Err(bytes)
PkceCodeChallenge_new(bytes) ==
    IF PkceCodeChallenge_validate_bytes(bytes) THEN Ok(bytes) ELSE Err(bytes)

\* BASE64_URL_SAFE_NO_PAD: the alphabet, and the encoding of a byte sequence,
\* six bits to a character, without padding.
BASE64_URL_SAFE == Upper \o Lower \o Digits \o <<"-", "_">>

Sextet(n) == BASE64_URL_SAFE[n + 1]

RECURSIVE BASE64_URL_SAFE_NO_PAD_encode(_)
BASE64_URL_SAFE_NO_PAD_encode(b) ==
    IF Len(b) = 0 THEN <<>>
    ELSE IF Len(b) = 1
    THEN <<Sextet(b[1] \div 4), Sextet((b[1] % 4) * 16)>>
    ELSE IF Len(b) = 2
    THEN <<Sextet(b[1] \div 4), Sextet((b[1] % 4) * 16 + b[2] \div 16),
           Sextet((b[2] % 16) * 4)>>
    ELSE <<Sextet(b[1] \div 4), Sextet((b[1] % 4) * 16 + b[2] \div 16),
           Sextet((b[2] % 16) * 4 + b[3] \div 64), Sextet(b[3] % 64)>>
         \o BASE64_URL_SAFE_NO_PAD_encode(SubSeq(b, 4, Len(b)))

PKCE_CODE_CHALLENGE_METHOD_PLAIN == "plain"
PKCE_CODE_CHALLENGE_METHOD_S256 == "S256"
PkceCodeChallengeMethods ==
    {PKCE_CODE_CHALLENGE_METHOD_PLAIN, PKCE_CODE_CHALLENGE_METHOD_S256}

\* A transform that cuts the encoded digest to the shortest valid length
\* minus one.
transform_Truncated(self, code_verifier, digest) ==
    IF self = PKCE_CODE_CHALLENGE_METHOD_PLAIN THEN code_verifier
    ELSE SubSeq(BASE64_URL_SAFE_NO_PAD_encode(digest), 1, MinCodeLen - 1)

\* A transform that hands the verifier out whatever the method.
transform_Identity(self, code_verifier, digest) == code_verifier

\* PkceCodeChallengeMethod::transform; digest is Sha256::digest(code_verifier).
transform(self, code_verifier, digest) ==
    IF self = PKCE_CODE_CHALLENGE_METHOD_PLAIN THEN code_verifier
    ELSE BASE64_URL_SAFE_NO_PAD_encode(digest)

\* The number of random bytes new_random_len accepts.
MinRandomLen == 32
MaxRandomLen == 96

\* A new_random_len that accepts one byte more than the limit.
new_random_len_Wide(len, random_bytes) ==
    IF ~(len >= MinRandomLen /\ len <= MaxRandomLen + 1)
    THEN Panic("assertion failed")
    ELSE Ok(BASE64_URL_SAFE_NO_PAD_encode(random_bytes))

\* PkceCodeVerifierBuf::new_random_len; random_bytes are the len bytes the
\* generator returned.
new_random_len(len, random_bytes) ==
    IF ~(len >= MinRandomLen /\ len <= MaxRandomLen) THEN Panic("assertion failed")
    ELSE Ok(BASE64_URL_SAFE_NO_PAD_encode(random_bytes))

\* str::as_bytes on a text of the base64url alphabet: the ASCII code of each
\* character.
as_bytes(text) ==
    [i \in DOMAIN text |->
        LET n == CHOOSE k \in 0..63 : Sextet(k) = text[i]
        IN IF n < 26 THEN 65 + n
           ELSE IF n < 52 THEN 97 + (n - 26)
           ELSE IF n < 62 THEN 48 + (n - 52)
           ELSE IF n = 62 THEN 45 ELSE 95]

\* StateBuf::new_random_len: the encoding of the random bytes, taken unchecked.
StateBuf_new_random_len(len, random_bytes) ==
    BASE64_URL_SAFE_NO_PAD_encode(random_bytes)

\* The number of random bytes of StateBuf::new_random.
DefaultStateLen == 16

\* The verifier of RFC 7636, appendix B, and its SHA-256 digest.
RfcVerifier ==
    <<"d", "B", "j", "f", "t", "J", "e", "Z", "4", "C", "V", "P", "-", "m", "B",
      "9", "2", "K", "2", "7", "u", "h", "b", "U", "J", "U", "1", "p", "1", "r",
      "_", "w", "W", "1", "g", "F", "W", "F", "O", "E", "j", "X", "k">>
RfcDigest ==
    <<19, 211, 30, 150, 26, 26, 216, 236, 47, 22, 177, 12, 76, 152, 46, 8,
      118, 168, 120, 173, 109, 241, 68, 86, 110, 225, 137, 74, 203, 112, 249, 195>>

\* Byte sequences a random generator or a hash can return: all zero, all
\* one bits, and two that run through the byte values.
ByteSeqs(len) ==
    {[i \in 1..len |-> (seed[1] + i * seed[2]) % 256] :
        seed \in {<<0, 0>>, <<255, 0>>, <<251, 0>>, <<0, 5>>}}

\* The length in bytes of a SHA-256 digest.
DigestLen == 32

\* Sha256::digest(message): 32 bytes, the same for the same message.  The
\* digest of the verifier of the RFC is the real one; of any other message it is
\* the one an earlier call in the log received, or, on the first call, any.
Sha256_digest(message) ==
    IF message = RfcVerifier THEN {RfcDigest}
    ELSE LET known == {made[i].digest :
                          i \in {j \in DOMAIN made :
                                    /\ made[j].op = "transform"
                                    /\ made[j].arg.method = PKCE_CODE_CHALLENGE_METHOD_S256
                                    /\ made[j].arg.verifier = message}}
         IN IF known # {} THEN known ELSE ByteSeqs(DigestLen)

\* PkceCodeChallengeAndMethod::from_code_verifier
from_code_verifier(code_verifier, method) ==
    LET digest == CHOOSE d \in Sha256_digest(code_verifier) : TRUE
    IN [challenge |-> transform(method, code_verifier, digest), method |-> <<method>>]

----------------------------------------------------------------------------
(* The inputs the model draws from.                                        *)

ClientIdText == <<"my-client">>

TokenUri == Uri("https", "as.example", "/token", None)
ParUri == Uri("https", "as.example", "/par", Some(<<"tenant", "=", "t1">>))
OtherUri == Uri("https", "rs.example", "/resource", None)

\* Authorization endpoint URIs: without a query, with one parameter, with an
\* escaped value, with a parameter without '=', with a key twice, and with a
\* key that for_endpoint writes itself.
AuthorizationUris ==
    { Uri("https", "as.example", "/authorize", None),
      Uri("https", "as.example", "/authorize", Some(<<"lang", "=", "en">>)),
      Uri("https", "as.example", "/authorize",
          Some(<<"ui_locales", "=", "en", "%20", "US", "&", "lang", "=", "en">>)),
      Uri("https", "as.example", "/authorize", Some(<<"flag">>)),
      Uri("https", "as.example", "/authorize",
          Some(<<"a", "=", "1", "&", "a", "=", "2">>)),
      Uri("https", "as.example", "/authorize",
          Some(<<"client_id", "=", "other">>)) }

Endpoint(kind, uri) == [kind |-> kind, client_id |-> ClientIdText, uri |-> uri]

\* The parameters of an authorization request (response_type=code).
AuthorizationParams ==
    << <<(<<"response_type">>), <<"code">>>>,
       <<(<<"client_id">>), ClientIdText>>,
       <<(<<"redirect_uri">>), <<"https", ":", "/", "/", "app.example", "/", "cb">>>>,
       <<(<<"scope">>), <<"openid", " ", "profile">>>> >>

RedirectBase == [kind |-> "Redirect", query |-> AuthorizationParams]

TokenBases ==
    { [kind |-> "PreAuthorizedCodeTokenRequest", client_id |-> Some(ClientIdText),
       pre_authorized_code |-> <<"SplxlOBeZQQYbYS6WxSbIA">>, tx_code |-> None],
      [kind |-> "PreAuthorizedCodeTokenRequest", client_id |-> None,
       pre_authorized_code |-> <<"SplxlOBeZQQYbYS6WxSbIA">>, tx_code |-> Some(<<"493536">>)] }

PushedBase == [kind |-> "Pushed", inner |-> [base |-> RedirectBase, layers |-> <<>>]]

OtherBases ==
    { [kind |-> "Other", method |-> "GET", contentType |-> "NoContent",
       headers |-> <<>>, fields |-> <<>>, fails |-> {}],
      [kind |-> "Other", method |-> "POST", contentType |-> "WwwFormUrlEncoded",
       headers |-> << <<"content-type", <<"text", "/", "plain">>>>,
                      <<"authorization", <<"Basic", " ", "abc">>>> >>,
       fields |-> << <<(<<"q">>), <<"1">>>> >>, fails |-> {}],
      [kind |-> "Other", method |-> "POST", contentType |-> "WwwFormUrlEncoded",
       headers |-> <<>>, fields |-> <<>>, fails |-> {"build_request"}],
      [kind |-> "Other", method |-> "POST", contentType |-> "WwwFormUrlEncoded",
       headers |-> <<>>, fields |-> <<>>, fails |-> {"decode_response"}],
      [kind |-> "Other", method |-> "POST", contentType |-> "WwwFormUrlEncoded",
       headers |-> <<>>, fields |-> <<>>, fails |-> {"process_response"}] }

\* Pushed(R) for the authorization request R, for R with a state, and for
\* R with a state and a PKCE challenge.
PushedBases ==
    { PushedBase,
      [kind |-> "Pushed",
       inner |-> [base |-> RedirectBase,
                  layers |-> <<Stateful_new(Some(<<"af0ifjsldkj", "~", "1">>))>>]],
      [kind |-> "Pushed",
       inner |-> [base |-> RedirectBase,
                  layers |-> <<Stateful_new(Some(<<"af0ifjsldkj", "~", "1">>)),
                               WithPkceChallenge_new(
                                   from_code_verifier(RfcVerifier,
                                       PKCE_CODE_CHALLENGE_METHOD_S256))>>]] }

\* The builders a caller starts from.
Builders ==
    {RequestBuilder_new(Endpoint("token", TokenUri), [base |-> b, layers |-> <<>>]) :
        b \in TokenBases}
    \cup {RequestBuilder_new(Endpoint("pushed_authorization", ParUri),
                             [base |-> b, layers |-> <<>>]) : b \in PushedBases}
    \cup {RequestBuilder_new(Endpoint("other", OtherUri), [base |-> b, layers |-> <<>>]) :
        b \in OtherBases}
    \cup {RequestBuilder_new(Endpoint("authorization", u), [base |-> RedirectBase, layers |-> <<>>]) :
        u \in AuthorizationUris}

States == {None, Some(<<"af0ifjsldkj", "~", "1">>)}
\* The verifier a client holds, and the challenges it derives from it.
PkceVerifiers == {RfcVerifier}
PkceChallenges ==
    {from_code_verifier(v, method) : v \in PkceVerifiers, method \in PkceCodeChallengeMethods}
\* Detail objects are structures; the model names each by its type.
AuthorizationDetailsLists == {<<"payment_initiation">>}
TokenTypes == {<<"Bearer">>, <<"Bearer", "\n">>}
AccessTokens == {<<"mF_9.B5f-4.1JqM">>, <<"2YotnFZFEjr1zCsicMWpAA">>}

\* What the transport returns: an error, or a response.
ResponseStatuses == {200, 201, 403}
ResponseContentTypes ==
    { None,
      Some(<<"application", "/", "json">>),
      Some(<<"application", "/", "json", "+", "ld">>),
      Some(<<"text", "/", "html">>) }
ResponseBodies ==
    { Malformed,
      JsonObject(<< <<"request_uri", JStr(<<"urn", ":", "x">>)>>,
                    <<"expires_in", JNum(60)>> >>),
      JsonObject(<< <<"access_token", JStr(<<"abc">>)>>,
                    <<"token_type", JStr(<<"Bearer">>)>> >>) }

HttpResponse(status, contentType, body) ==
    [status |-> status,
     headers |-> IF contentType.some THEN << <<"content-type", contentType.val>> >> ELSE <<>>,
     body |-> body]

TransportError == RequestError("connection refused")

Replies ==
    {Err(TransportError)}
    \cup {Ok(HttpResponse(st, ct, b)) :
            st \in ResponseStatuses, ct \in ResponseContentTypes, b \in ResponseBodies}

----------------------------------------------------------------------------
(* The state machine.                                                      *)

Init ==
    /\ builder \in Builders
    /\ endpoint0 = builder.endpoint
    /\ base0 = builder.request.base
    /\ calls = <<>>
    /\ pc = "composing"
    /\ stages = <<>>
    /\ built = NoResult
    /\ sent = <<>>
    /\ reply = NoResult
    /\ decoded = NoResult
    /\ result = NoResult
    /\ redirect = NoResult
    /\ input = NoResult
    /\ made = NoResult
    /\ scope = NoResult

CanWrap == pc = "composing" /\ Len(builder.request.layers) < MaxLayers

Compose(b, call) ==
    /\ builder' = b
    /\ calls' = Append(calls, call)
    /\ UNCHANGED <<input, made, scope, endpoint0, base0, pc, stages, built, sent, reply, decoded,
                   result, redirect>>

WithState ==
    /\ CanWrap
    /\ \E state \in States :
          Compose(with_state(builder, state), [op |-> "with_state", args |-> <<state>>])

WithPkceChallenge ==
    /\ CanWrap
    /\ \E pkce \in PkceChallenges :
          Compose(with_pkce_challenge(builder, pkce),
                  [op |-> "with_pkce_challenge", args |-> <<pkce>>])

WithPkceVerifier ==
    /\ CanWrap
    /\ \E v \in PkceVerifiers :
          Compose(with_pkce_verifier(builder, v),
                  [op |-> "with_pkce_verifier", args |-> <<v>>])

WithAuthorizationDetails ==
    /\ CanWrap
    /\ \E d \in AuthorizationDetailsLists :
          Compose(with_authorization_details(builder, d),
                  [op |-> "with_authorization_details", args |-> <<d>>])

WithAccessToken ==
    /\ CanWrap
    /\ \E ty \in TokenTypes, tok \in AccessTokens :
          Compose(with_access_token(builder, ty, tok),
                  [op |-> "with_access_token", args |-> <<ty, tok>>])

\* The builders that implement HttpRequest for their endpoint.
CanSend == builder.endpoint.kind # "authorization"

Finish(r) == result' = r /\ pc' = "done"

\* A stage that has run: its outcome is Pending until it returns.
Stage(name, r) ==
    [stage |-> name, tag |-> r.tag,
     err |-> IF r.tag = "Err" THEN r.val ELSE RequestError("")]
Pending == [tag |-> "Pending", val |-> "pending"]

\* send, line 1: self.build_request(endpoint, http_client).await?
SendBuild ==
    /\ pc = "composing" /\ CanSend
    /\ LET r == build_request(builder.request, builder.endpoint)
       IN /\ stages' = Append(stages, Stage("build_request", r))
          /\ IF r.tag = "Ok"
             THEN built' = r.val /\ pc' = "encode" /\ UNCHANGED result
             ELSE Finish(r) /\ UNCHANGED built
    /\ UNCHANGED <<input, made, scope, endpoint0, base0, calls, builder, sent, reply, decoded, redirect>>

\* An encode step that leaves the headers as build_request set them.
EncodeRequest_KeepHeaders(ct, request) ==
    LET body == Encode(ct, request.body)
    IN IF body.tag = "Ok" THEN Ok([request EXCEPT !.body = body.val]) ELSE body

\* The request with the Content-Type of the content type ct set and its body
\* encoded.
EncodeRequest(ct, request) ==
    LET value == ContentTypeValue(ct)
        headers == IF value.tag = "Ok"
                   THEN HeaderInsert(request.headers, "content-type", value.val)
                   ELSE request.headers
        body == Encode(ct, request.body)
    IN IF body.tag = "Ok"
       THEN Ok([request EXCEPT !.headers = headers, !.body = body.val])
       ELSE body

\* send: the Content-Type header, then request.map(encode)
SendEncode ==
    /\ pc = "encode"
    /\ LET r == EncodeRequest(ContentType(builder.request), built)
       IN /\ stages' = Append(stages, Stage("encode", r))
          /\ IF r.tag = "Ok"
             THEN built' = r.val /\ pc' = "transport" /\ UNCHANGED result
             ELSE Finish(r) /\ UNCHANGED built
    /\ UNCHANGED <<input, made, scope, endpoint0, base0, calls, builder, sent, reply, decoded, redirect>>

\* send: http_client.send(encoded_request), up to the await
SendTransport ==
    /\ pc = "transport"
    /\ stages' = Append(stages, Stage("send", Pending))
    /\ sent' = Append(sent, built)
    /\ pc' = "awaiting"
    /\ UNCHANGED <<input, made, scope, endpoint0, base0, calls, builder, built, reply, decoded, result,
                   redirect>>

\* The transport returns a response or an error.
HttpClientReturns ==
    /\ pc = "awaiting"
    /\ reply' \in Replies
    /\ stages' = [stages EXCEPT ![Len(stages)] = Stage("send", reply')]
    /\ pc' = "replied"
    /\ UNCHANGED <<input, made, scope, endpoint0, base0, calls, builder, built, sent, decoded,
                   result, redirect>>

\* send: self.decode_response(endpoint, response)? on the transport's response
DecodeReply ==
    /\ decoded' = decode_response(builder.request, builder.endpoint, reply.val)
    /\ stages' = Append(stages, Stage("decode_response", decoded'.res))
    /\ IF decoded'.res.tag = "Ok"
       THEN pc' = "process" /\ UNCHANGED result
       ELSE Finish(decoded'.res)

\* A send that hands the request to the transport again when it failed.
SendDecode_Retry ==
    /\ pc = "replied"
    /\ IF reply.tag # "Ok"
       THEN IF Len(sent) < 2
            THEN pc' = "transport" /\ UNCHANGED <<stages, decoded, result>>
            ELSE Finish(reply) /\ UNCHANGED <<stages, decoded>>
       ELSE DecodeReply
    /\ UNCHANGED <<input, made, scope, endpoint0, base0, calls, builder, built, sent, reply, redirect>>

\* A send that reports a transport failure as an error of its own.
SendDecode_Translate ==
    /\ pc = "replied"
    /\ IF reply.tag # "Ok"
       THEN Finish(Err(ResponseError("no response"))) /\ UNCHANGED <<stages, decoded>>
       ELSE DecodeReply
    /\ UNCHANGED <<input, made, scope, endpoint0, base0, calls, builder, built, sent, reply, redirect>>

\* A send that awaits the transport again whenever it failed.
SendDecode_Again ==
    /\ pc = "replied"
    /\ IF reply.tag # "Ok"
       THEN pc' = "awaiting" /\ UNCHANGED <<stages, decoded, result>>
       ELSE DecodeReply
    /\ UNCHANGED <<input, made, scope, endpoint0, base0, calls, builder, built, sent, reply, redirect>>

\* send: the ? on the transport's result, then the decode
SendDecode ==
    /\ pc = "replied"
    /\ IF reply.tag # "Ok"
       THEN Finish(reply) /\ UNCHANGED <<stages, decoded>>
       ELSE DecodeReply
    /\ UNCHANGED <<input, made, scope, endpoint0, base0, calls, builder, built, sent, reply, redirect>>

\* send: self.process_response(endpoint, http_client, decoded_response).await
SendProcess ==
    /\ pc = "process"
    /\ LET r == process_response(builder.request, builder.endpoint, decoded.res.val)
       IN stages' = Append(stages, Stage("process_response", r)) /\ Finish(r)
    /\ UNCHANGED <<input, made, scope, endpoint0, base0, calls, builder, built, sent, reply, decoded,
                   redirect>>

\* RequestBuilder::into_redirect_uri at an authorization endpoint.
IntoRedirectUri ==
    /\ pc = "composing"
    /\ builder.endpoint.kind = "authorization"
    /\ IsRedirectRequest(builder.request)
    /\ Finish(redirect_uri(builder.request, builder.endpoint))
    /\ UNCHANGED <<input, made, scope, endpoint0, base0, calls, builder, stages, built, sent, reply,
                   decoded, redirect>>

\* PushedAuthorizationResponse::for_endpoint on the response of a PAR exchange.
ForEndpoint ==
    /\ pc = "done"
    /\ builder.endpoint.kind = "pushed_authorization"
    /\ result.tag = "Ok"
    /\ \E u \in AuthorizationUris :
          redirect' = [endpoint |-> Endpoint("authorization", u),
                       uri |-> for_endpoint(result.val, Endpoint("authorization", u))]
    /\ pc' = "redirected"
    /\ UNCHANGED <<input, made, scope, endpoint0, base0, calls, builder, stages, built, sent, reply,
                   decoded, result>>

Next ==
    \/ WithState
    \/ WithPkceChallenge
    \/ WithPkceVerifier
    \/ WithAuthorizationDetails
    \/ WithAccessToken
    \/ SendBuild
    \/ SendEncode
    \/ SendTransport
    \/ HttpClientReturns
    \/ SendDecode
    \/ SendProcess
    \/ IntoRedirectUri
    \/ ForEndpoint

Spec == Init /\ [][Next]_vars

\* The builders of an exchange that is about to be sent: every builder, and
\* every builder with one extension applied.
LiveBuilders ==
    Builders
    \cup {with_state(b, st) : b \in Builders, st \in States}
    \cup {with_access_token(b, t, a) :
             b \in Builders, t \in TokenTypes, a \in AccessTokens}

LiveInit ==
    /\ builder \in LiveBuilders
    /\ endpoint0 = builder.endpoint
    /\ base0 = builder.request.base
    /\ calls = <<>>
    /\ pc = "composing"
    /\ stages = <<>> /\ built = NoResult /\ sent = <<>> /\ reply = NoResult
    /\ decoded = NoResult /\ result = NoResult /\ redirect = NoResult
    /\ input = NoResult /\ made = NoResult /\ scope = NoResult

\* send, and what the caller does with a result of a PAR exchange.
LiveNext ==
    \/ SendBuild
    \/ SendEncode
    \/ SendTransport
    \/ HttpClientReturns
    \/ SendDecode
    \/ SendProcess
    \/ ForEndpoint

\* The exchange with its scheduling: a synchronous stage of send runs to its
\* end, and the transport returns a response or an error.
LiveSpec ==
    /\ LiveInit
    /\ [][LiveNext]_vars
    /\ WF_vars(SendEncode)
    /\ WF_vars(SendTransport)
    /\ WF_vars(HttpClientReturns)
    /\ WF_vars(SendDecode)
    /\ WF_vars(SendProcess)

----------------------------------------------------------------------------
(* The calls a caller makes on the PKCE types: the constructors on a text  *)
(* it supplies, new_random_len on a length, and transform on a verifier it *)
(* holds.  made is the log of the calls.                                   *)

\* How far from each length limit the texts and lengths of the model reach.
LenMargin == 1
\* The longest log of calls.
MaxCalls == 3

Fill(n, c) == [i \in 1..n |-> c]

\* Characters at the edges of the classes the grammar names, inside and out.
PkceChars ==
    {"A", "Z", "a", "z", "0", "9", "-", ".", "_", "~",
     " ", "+", "/", ":", "=", "@", "[", "^", "{", "\n"}

PkceLens ==
    ((MinCodeLen - LenMargin)..(MinCodeLen + LenMargin))
    \cup ((MaxCodeLen - LenMargin)..(MaxCodeLen + LenMargin))

\* The texts a caller supplies: the empty text, the verifier of the RFC, and texts
\* of the lengths around the limits with one character of each class in
\* the first place or in the last place of the shortest of them.
PkceTexts ==
    {<<>>, RfcVerifier}
    \cup {[Fill(n, "a") EXCEPT ![pos] = c] :
            n \in PkceLens, pos \in {1, MinCodeLen - LenMargin}, c \in PkceChars}

\* The lengths a caller asks new_random_len for.
RandomLens ==
    {0}
    \cup ((MinRandomLen - LenMargin)..(MinRandomLen + LenMargin))
    \cup ((MaxRandomLen - LenMargin)..(MaxRandomLen + LenMargin))

\* Lengths for a random state: none, and every remainder modulo three.
StateLens == 0..(2 + LenMargin)

PkceInputs ==
    {[kind |-> "text", text |-> t, len |-> 0] : t \in PkceTexts}
    \cup {[kind |-> "len", text |-> <<>>, len |-> n] :
             n \in RandomLens \cup StateLens}
    \cup {[kind |-> "none", text |-> <<>>, len |-> 0]}

\* No exchange is under way.
IdleExchange ==
    /\ endpoint0 = NoResult /\ base0 = NoResult /\ calls = <<>>
    /\ builder = NoResult /\ pc = "idle" /\ stages = <<>> /\ built = NoResult
    /\ sent = <<>> /\ reply = NoResult /\ decoded = NoResult
    /\ result = NoResult /\ redirect = NoResult

PkceInit ==
    /\ input \in PkceInputs
    /\ made = <<>>
    /\ scope = NoResult
    /\ IdleExchange

Call(op, arg, digest, res) == [op |-> op, arg |-> arg, digest |-> digest, res |-> res]

Log(call) ==
    /\ Len(made) < MaxCalls
    /\ made' = Append(made, call)
    /\ UNCHANGED <<input, scope>>
    /\ UNCHANGED exchangeVars

NewPkceCodeVerifier ==
    /\ input.kind = "text"
    /\ Log(Call("PkceCodeVerifier::new", input.text, <<>>,
                PkceCodeVerifier_new(input.text)))

NewPkceCodeChallenge ==
    /\ input.kind = "text"
    /\ Log(Call("PkceCodeChallenge::new", input.text, <<>>,
                PkceCodeChallenge_new(input.text)))

\* new_random_len: the generator is asked for len bytes once the assertion
\* has passed.
NewRandomLen ==
    /\ input.kind = "len"
    /\ \E random_bytes \in ByteSeqs(input.len) :
          Log(Call("new_random_len", input.len, <<>>,
                   new_random_len(input.len, random_bytes)))

\* StateBuf::new_random_len: the generator is asked for len bytes.
NewRandomStateLen ==
    /\ input.kind = "len"
    /\ \E random_bytes \in ByteSeqs(input.len) :
          Log(Call("StateBuf::new_random_len", input.len, <<>>,
                   StateBuf_new_random_len(input.len, random_bytes)))

\* StateBuf::new_random, which takes no input: new_random_len of 16 bytes.
NewRandomState ==
    /\ input.kind = "none"
    /\ \E random_bytes \in ByteSeqs(DefaultStateLen) :
          Log(Call("StateBuf::new_random", DefaultStateLen, <<>>,
                   StateBuf_new_random_len(DefaultStateLen, random_bytes)))

\* The verifiers the caller holds.
HeldVerifiers ==
    {made[i].res.val :
        i \in {j \in DOMAIN made :
                  /\ made[j].op \in {"PkceCodeVerifier::new", "new_random_len"}
                  /\ made[j].res.tag = "Ok"}}

\* transform on a verifier the caller holds.
Transform ==
    \E code_verifier \in HeldVerifiers, self \in PkceCodeChallengeMethods :
        \E digest \in IF self = PKCE_CODE_CHALLENGE_METHOD_S256
                      THEN Sha256_digest(code_verifier) ELSE {<<>>} :
            Log(Call("transform", [method |-> self, verifier |-> code_verifier],
                     digest, Ok(transform(self, code_verifier, digest))))

PkceNext ==
    \/ NewPkceCodeVerifier
    \/ NewPkceCodeChallenge
    \/ NewRandomLen
    \/ NewRandomStateLen
    \/ NewRandomState
    \/ Transform

PkceSpec == PkceInit /\ [][PkceNext]_vars

----------------------------------------------------------------------------
(* The validated string types.  The input of a constructor is a sequence   *)
(* of bytes, numbers 0..255.                                               *)

\* is_vschar: 0x20..=0x7E
is_vschar(c) == c >= 32 /\ c <= 126

\* is_nqchar: 0x21, 0x23..=0x5B, 0x5D..=0x7E
is_nqchar(c) == c = 33 \/ (c >= 35 /\ c <= 91) \/ (c >= 93 /\ c <= 126)

\* The validate_bytes loops: false at the first byte outside the class, and
\* the test on the index i, the number of bytes, at the end.
AccessToken_validate_bytes(bytes) ==
    (\A i \in DOMAIN bytes : is_vschar(bytes[i])) /\ Len(bytes) > 0

Code_validate_bytes(bytes) ==
    (\A i \in DOMAIN bytes : is_vschar(bytes[i])) /\ Len(bytes) > 0

State_validate_bytes(bytes) ==
    (\A i \in DOMAIN bytes : is_vschar(bytes[i])) /\ Len(bytes) > 0

\* A ClientId validation that asks for a byte, as the other types do.
ClientId_validate_bytes_NonEmpty(bytes) ==
    (\A i \in DOMAIN bytes : is_vschar(bytes[i])) /\ Len(bytes) > 0

ClientId_validate_bytes(bytes) == \A i \in DOMAIN bytes : is_vschar(bytes[i])

\* ScopeToken::validate_bytes ends with i > 1.
ScopeToken_validate_bytes(bytes) ==
    (\A i \in DOMAIN bytes : is_nqchar(bytes[i])) /\ Len(bytes) > 1

\* The space that separates scope tokens.
SP == 32

\* The inner loop of Scope::validate_bytes from index i: it ends at the end of
\* the bytes or after a space (expect_token), or returns false.
RECURSIVE ScopeTokenLoop(_, _, _)
ScopeTokenLoop(bytes, i, scope_token_empty) ==
    IF i > Len(bytes)
    THEN [ret |-> TRUE, i |-> i, scope_token_empty |-> scope_token_empty,
          expect_token |-> FALSE]
    ELSE IF is_nqchar(bytes[i]) THEN ScopeTokenLoop(bytes, i + 1, FALSE)
    ELSE IF bytes[i] = SP
    THEN [ret |-> TRUE, i |-> i + 1, scope_token_empty |-> scope_token_empty,
          expect_token |-> TRUE]
    ELSE [ret |-> FALSE, i |-> i, scope_token_empty |-> scope_token_empty,
          expect_token |-> FALSE]

\* The outer loop: one token, then another while a space was read.
RECURSIVE ExpectTokenLoop(_, _)
ExpectTokenLoop(bytes, i) ==
    LET r == ScopeTokenLoop(bytes, i, TRUE)
    IN IF ~r.ret THEN FALSE
       ELSE IF r.scope_token_empty THEN FALSE
       ELSE IF r.expect_token THEN ExpectTokenLoop(bytes, r.i)
       ELSE TRUE

\* A Scope validation that lets a space end the scope.
Scope_validate_bytes_TrailingSpace(bytes) ==
    IF bytes # <<>> /\ bytes[Len(bytes)] = SP
    THEN ExpectTokenLoop(SubSeq(bytes, 1, Len(bytes) - 1), 1)
    ELSE ExpectTokenLoop(bytes, 1)

Scope_validate_bytes(bytes) == ExpectTokenLoop(bytes, 1)

\* The validate_bytes of each type.
Validates(type, bytes) ==
    CASE type = "AccessToken" -> AccessToken_validate_bytes(bytes)
      [] type = "Code" -> Code_validate_bytes(bytes)
      [] type = "State" -> State_validate_bytes(bytes)
      [] type = "ClientId" -> ClientId_validate_bytes(bytes)
      [] type = "ScopeToken" -> ScopeToken_validate_bytes(bytes)
      [] type = "Scope" -> Scope_validate_bytes(bytes)

\* Type::new, as the StrNewType derive generates it: the validated text, or
\* an error that carries the input.
New(type, bytes) == IF Validates(type, bytes) THEN Ok(bytes) ELSE Err(bytes)

\* as_str of a constructed value: the text it holds.
as_str(value) == value

\* Scope::iter: the text split at every space.
Scope_iter(self) == SplitOn(self, SP)

\* A contains that looks at the first token alone.
Scope_contains_First(self, token) == Scope_iter(self)[1] = token

\* Scope::contains: some token of the iteration equals the token.
Scope_contains(self, token) ==
    \E i \in DOMAIN Scope_iter(self) : Scope_iter(self)[i] = token

\* An insert that looks for the token anywhere in the text.
ScopeBuf_insert_Substring(self, token) ==
    IF \E i \in 1..(Len(self) - Len(token) + 1) :
           SubSeq(self, i, i + Len(token) - 1) = token
    THEN [ret |-> FALSE, scope |-> self]
    ELSE [ret |-> TRUE, scope |-> self \o <<SP>> \o token]

\* ScopeBuf::insert: the value returned and the scope afterwards.
ScopeBuf_insert(self, token) ==
    IF Scope_contains(self, token)
    THEN [ret |-> FALSE, scope |-> self]
    ELSE [ret |-> TRUE, scope |-> self \o <<SP>> \o token]

\* Extend for ScopeBuf: insert of every token in turn.
RECURSIVE ScopeBuf_extend(_, _)
ScopeBuf_extend(self, iter) ==
    IF iter = <<>> THEN self
    ELSE ScopeBuf_extend(ScopeBuf_insert(self, Head(iter)).scope, Tail(iter))

\* The loop of from_tokens: the String after the tokens from index i on.
RECURSIVE PushTokens(_, _, _)
PushTokens(tokens, i, string) ==
    IF i > Len(tokens) THEN string
    ELSE PushTokens(tokens, i + 1,
                    (IF string # <<>> THEN string \o <<SP>> ELSE string)
                        \o tokens[i])

\* A from_tokens without the test for an empty String.
ScopeBuf_from_tokens_Always(tokens) == Some(PushTokens(tokens, 1, <<>>))

\* ScopeBuf::from_tokens
ScopeBuf_from_tokens(tokens) ==
    LET string == PushTokens(tokens, 1, <<>>)
    IN IF string = <<>> THEN None ELSE Some(string)

----------------------------------------------------------------------------
(* The string types as a machine of their own: the caller has one input,   *)
(* a byte string or a list of scope tokens, constructs one value from it,  *)
(* and inserts tokens into the scope it has built.                         *)

\* The longest byte string drawn at every length, and the longest token list.
MaxBytes == 3
MaxTokens == 2

\* Bytes on both sides of every edge of the two character classes.
ByteSamples == {31, 32, 33, 34, 35, 91, 92, 93, 97, 126, 127}

\* Every sequence over S of at most n elements.
SeqsUpTo(S, n) == UNION {[1..k -> S] : k \in 0..n}

\* Longer texts: two tokens apart by two spaces, and three tokens.
LongTexts == {<<97, 97, 32, 32, 97>>, <<97, 32, 97, 97, 32, 33>>}

\* The tokens the caller holds: "a", "aa" and "!".
ScopeTokens == {<<97>>, <<97, 97>>, <<33>>}

TypeInputs ==
    {[kind |-> "bytes", bytes |-> b, tokens |-> <<>>] :
        b \in SeqsUpTo(ByteSamples, MaxBytes) \cup LongTexts}
    \cup {[kind |-> "tokens", bytes |-> <<>>, tokens |-> t] :
             t \in SeqsUpTo(ScopeTokens, MaxTokens)}

TypesInit ==
    /\ input \in TypeInputs
    /\ made = <<>>
    /\ scope = None
    /\ IdleExchange

\* Type::new on the input, once.
NewValue(type) ==
    /\ input.kind = "bytes"
    /\ made = <<>>
    /\ made' = <<Call(type, input.bytes, <<>>, New(type, input.bytes))>>
    /\ scope' = IF type = "Scope" /\ Validates(type, input.bytes)
                THEN Some(input.bytes) ELSE scope
    /\ UNCHANGED input
    /\ UNCHANGED exchangeVars

NewAccessToken == NewValue("AccessToken")

NewCode == NewValue("Code")

NewState == NewValue("State")

NewClientId == NewValue("ClientId")

NewScopeToken == NewValue("ScopeToken")

NewScope == NewValue("Scope")

\* ScopeBuf::from_tokens on the input, once.
FromTokens ==
    /\ input.kind = "tokens"
    /\ made = <<>>
    /\ made' = <<Call("from_tokens", input.tokens, <<>>,
                      ScopeBuf_from_tokens(input.tokens))>>
    /\ scope' = ScopeBuf_from_tokens(input.tokens)
    /\ UNCHANGED input
    /\ UNCHANGED exchangeVars

\* ScopeBuf::insert of a token into the scope that was built.
Insert ==
    /\ scope.some
    /\ Len(made) < MaxCalls
    /\ \E token \in ScopeTokens :
          /\ made' = Append(made,
                 Call("insert", [scope |-> scope.val, token |-> token], <<>>,
                      ScopeBuf_insert(scope.val, token)))
          /\ scope' = Some(ScopeBuf_insert(scope.val, token).scope)
    /\ UNCHANGED input
    /\ UNCHANGED exchangeVars

\* The lists extend is given: a token twice, and two tokens.
ExtendLists == { << <<97>>, <<97>> >>, << <<33>>, <<97>> >> }

\* ScopeBuf::extend with a list of tokens, on a scope built from tokens.
Extend ==
    /\ input.kind = "tokens"
    /\ scope.some
    /\ Len(made) < MaxCalls
    /\ \E tokens \in ExtendLists :
          /\ made' = Append(made,
                 Call("extend", [scope |-> scope.val, tokens |-> tokens], <<>>,
                      [scope |-> ScopeBuf_extend(scope.val, tokens)]))
          /\ scope' = Some(ScopeBuf_extend(scope.val, tokens))
    /\ UNCHANGED input
    /\ UNCHANGED exchangeVars

TypesNext ==
    \/ NewAccessToken
    \/ NewCode
    \/ NewState
    \/ NewClientId
    \/ NewScopeToken
    \/ NewScope
    \/ FromTokens
    \/ Insert
    \/ Extend

TypesSpec == TypesInit /\ [][TypesNext]_vars

----------------------------------------------------------------------------
(* Discovery.  A URI is its text, a sequence of chunks: the scheme, ":",    *)
(* "//" and the authority when there is one, the path with "/" between its  *)
(* segments, "?" and the query, "#" and the fragment.  A percent-encoded    *)
(* octet is a chunk of its own.                                             *)

\* The index of the first chunk of s that is one of marks, or Len(s) + 1.
RECURSIVE FirstOf(_, _, _)
FirstOf(s, marks, from) ==
    IF from > Len(s) THEN Len(s) + 1
    ELSE IF s[from] \in marks THEN from
    ELSE FirstOf(s, marks, from + 1)

\* What follows the path of a text that starts with a path.
AfterPath(rest) == SubSeq(rest, FirstOf(rest, {"?", "#"}, 1), Len(rest))

\* The path, query and fragment of a text that starts with a path.
PathOf(rest) == SubSeq(rest, 1, FirstOf(rest, {"?", "#"}, 1) - 1)
QueryOf(rest) ==
    IF AfterPath(rest) # <<>> /\ AfterPath(rest)[1] = "?"
    THEN Some(SubSeq(AfterPath(rest), 2, FirstOf(AfterPath(rest), {"#"}, 1) - 1))
    ELSE None
FragmentOf(rest) ==
    IF FirstOf(rest, {"#"}, 1) <= Len(rest)
    THEN Some(SubSeq(rest, FirstOf(rest, {"#"}, 1) + 1, Len(rest)))
    ELSE None

\* Uri::scheme, authority, path, query and fragment.
Uri_scheme(uri) == uri[1]
Uri_authority(uri) ==
    IF Len(uri) >= 4 /\ uri[3] = "//" THEN Some(uri[4]) ELSE None
AfterAuthority(uri) ==
    SubSeq(uri, IF Uri_authority(uri).some THEN 5 ELSE 3, Len(uri))
Uri_path(uri) == PathOf(AfterAuthority(uri))
Uri_query(uri) == QueryOf(AfterAuthority(uri))
Uri_fragment(uri) == FragmentOf(AfterAuthority(uri))

\* Path::segments: the pieces between the slashes after the leading one; the
\* empty path and the path "/" have none.
Path_segments(path) ==
    LET relative == IF path # <<>> /\ path[1] = "/" THEN Tail(path) ELSE path
    IN IF relative = <<>> THEN <<>> ELSE SplitOn(relative, "/")

\* UriBuf::from_scheme: the scheme and an empty path.
UriBuf_from_scheme(scheme) ==
    [scheme |-> scheme, authority |-> None, path |-> <<>>, query |-> None,
     fragment |-> None]

\* PathMut::push: the segment after the path and a slash; a first segment
\* stays relative when the URI has no authority.
PathMut_push(uri, segment) ==
    [uri EXCEPT !.path = IF uri.path = <<>> /\ ~uri.authority.some THEN segment
                         ELSE uri.path \o <<"/">> \o segment]

RECURSIVE PushAll(_, _)
PushAll(uri, segments) ==
    IF segments = <<>> THEN uri
    ELSE PushAll(PathMut_push(uri, Head(segments)), Tail(segments))

\* The text of a UriBuf.
UriBuf_to_string(uri) ==
    <<uri.scheme, ":">>
    \o (IF uri.authority.some THEN <<"//", uri.authority.val>> ELSE <<>>)
    \o uri.path
    \o (IF uri.query.some THEN <<"?">> \o uri.query.val ELSE <<>>)
    \o (IF uri.fragment.some THEN <<"#">> \o uri.fragment.val ELSE <<>>)

\* A well_known_uri that pushes the segments of the base URL first.
well_known_uri_BaseFirst(base_url, well_known) ==
    LET scheme_only == UriBuf_from_scheme(Uri_scheme(base_url))
        with_authority == [scheme_only EXCEPT !.authority = Uri_authority(base_url)]
        with_base == PushAll(with_authority, Path_segments(Uri_path(base_url)))
        with_path == PushAll(with_base, Path_segments(PathOf(well_known)))
    IN UriBuf_to_string([with_path EXCEPT !.query = Uri_query(base_url),
                                          !.fragment = Uri_fragment(base_url)])

\* well_known_uri
well_known_uri(base_url, well_known) ==
    LET scheme_only == UriBuf_from_scheme(Uri_scheme(base_url))
        with_authority == [scheme_only EXCEPT !.authority = Uri_authority(base_url)]
        with_well_known == PushAll(with_authority, Path_segments(PathOf(well_known)))
        with_path == PushAll(with_well_known, Path_segments(Uri_path(base_url)))
    IN UriBuf_to_string([with_path EXCEPT !.query = Uri_query(base_url),
                                          !.fragment = Uri_fragment(base_url)])

\* AuthorizationServerMetadata::WELL_KNOWN_URI_REF
WELL_KNOWN_URI_REF == <<".well-known", "/", "oauth-authorization-server">>

\* discovery_request: GET of the discovery URL with Accept: application/json.
discovery_request(discovery_url) ==
    HttpRequestOf("GET", discovery_url, << <<"accept", APPLICATION_JSON>> >>, <<>>)

\* The percent-encoded octets that stand for an unreserved character.
PctDecoded == [c \in {"%74"} |-> "t"]

\* A URI with every such octet decoded.
PctNormal(uri) ==
    [i \in DOMAIN uri |->
        IF uri[i] \in DOMAIN PctDecoded THEN PctDecoded[uri[i]] ELSE uri[i]]

\* PartialEq of iref URIs: component by component, a percent-encoded octet
\* equal to the character it stands for.
Uri_eq(a, b) == PctNormal(a) = PctNormal(b)

\* serde_json::from_slice::<AuthorizationServerMetadata>: issuer is the one
\* required field.
from_slice_AuthorizationServerMetadata(body) ==
    IF ~body.wellformed THEN Err("expected value")
    ELSE IF ~HasMember(body, "issuer") THEN Err("missing field issuer")
    ELSE IF Member(body, "issuer").t # "str" \/ ~IsUri(Member(body, "issuer").s)
    THEN Err("invalid value for issuer")
    ELSE Ok([issuer |-> Member(body, "issuer").s])

\* Discoverable::validate of AuthorizationServerMetadata
AuthorizationServerMetadata_validate(self, base_url) ==
    IF Uri_eq(self.issuer, base_url) THEN Ok("unit")
    ELSE Err(ResponseError("invalid authorization server metadata issuer"))

\* discovery_response
discovery_response(base_url, http_response) ==
    IF http_response.status # StatusOK
    THEN Err(ServerError(http_response.status))
    ELSE LET ct == expect_content_type(http_response.headers, APPLICATION_JSON)
             metadata == from_slice_AuthorizationServerMetadata(http_response.body)
         IN IF ct.tag = "Err" THEN ct
            ELSE IF metadata.tag = "Err" THEN Err(ResponseError(metadata.val))
            ELSE IF AuthorizationServerMetadata_validate(metadata.val, base_url).tag = "Err"
            THEN AuthorizationServerMetadata_validate(metadata.val, base_url)
            ELSE Ok(metadata.val)

----------------------------------------------------------------------------
(* Discovery as a machine of its own: the caller has a base URL and a      *)
(* well-known reference, and either computes the discovery URL or runs     *)
(* discover, whose steps are the request, the transport and the response.  *)

IssuerHost == <<"https", ":", "//", "issuer.example.com">>

\* Base URLs: with a path, without one, with the path "/", with a trailing
\* slash, with a query and a fragment, and with a percent-encoded octet.
BaseUrls ==
    { IssuerHost \o <<"/", "t", "enant">>,
      IssuerHost,
      IssuerHost \o <<"/">>,
      IssuerHost \o <<"/", "t", "enant", "/">>,
      IssuerHost \o <<"/", "a", "/", "b", "?", "q", "#", "f">>,
      IssuerHost \o <<"/", "%74", "enant">> }

\* The reference of the metadata, and the one of the tests.
WellKnownRefs ==
    { WELL_KNOWN_URI_REF, <<"/", ".well-known", "/", "openid-credential-issuer">> }

DiscoverInputs ==
    {[kind |-> "discover", base_url |-> b, well_known |-> w] :
        b \in BaseUrls, w \in WellKnownRefs}

\* What a server can answer to the request for a base URL.
DiscoveryBodies ==
    { Malformed,
      JsonObject(<< <<"token_endpoint", JStr(IssuerHost \o <<"/", "token">>)>> >>),
      JsonObject(<< <<"issuer", JNum(1)>> >>),
      JsonObject(<< <<"issuer", JStr(<<"issuer.example.com">>)>> >>) }
    \cup {JsonObject(<< <<"issuer", JStr(b)>> >>) : b \in BaseUrls}

DiscoveryReplies ==
    {Err(TransportError)}
    \cup {Ok(HttpResponse(st, ct, b)) :
            st \in ResponseStatuses, ct \in ResponseContentTypes,
            b \in DiscoveryBodies}

DiscoverInit ==
    /\ input \in DiscoverInputs
    /\ made = <<>>
    /\ scope = NoResult
    /\ IdleExchange

Step(call) ==
    /\ made' = Append(made, call)
    /\ UNCHANGED <<input, scope>>
    /\ UNCHANGED exchangeVars

\* well_known_uri on the input.
WellKnownUri ==
    /\ made = <<>>
    /\ Step(Call("well_known_uri", input, <<>>,
                 well_known_uri(input.base_url, input.well_known)))

\* discover, up to the call of the transport.
DiscoverRequest ==
    /\ made = <<>>
    /\ input.well_known = WELL_KNOWN_URI_REF
    /\ Step(Call("discovery_request", input.base_url, <<>>,
                 discovery_request(well_known_uri(input.base_url,
                                                  WELL_KNOWN_URI_REF))))

\* The transport returns a response or an error.
DiscoverTransport ==
    /\ Len(made) = 1
    /\ made[1].op = "discovery_request"
    /\ \E r \in DiscoveryReplies : Step(Call("send", made[1].res, <<>>, r))

\* discover returns the error of the transport or what discovery_response
\* makes of the response.
DiscoverResponse ==
    /\ Len(made) = 2
    /\ Step(Call("discover", input.base_url, <<>>,
                 IF made[2].res.tag = "Err" THEN made[2].res
                 ELSE discovery_response(input.base_url, made[2].res.val)))

DiscoverNext ==
    \/ WellKnownUri
    \/ DiscoverRequest
    \/ DiscoverTransport
    \/ DiscoverResponse

DiscoverSpec == DiscoverInit /\ [][DiscoverNext]_vars

----------------------------------------------------------------------------
(* Two exchanges at once.  send is synchronous up to the await of the      *)
(* transport and again after it, so an exchange has two steps, with the    *)
(* answer of the transport between them; the transport serves the requests *)
(* in flight in any order.                                                 *)

\* send up to the await: the encoded request, or the failure of
\* build_request or of the encoding.
SendUntilAwait(b) ==
    LET r == build_request(b.request, b.endpoint)
    IN IF r.tag # "Ok" THEN r ELSE EncodeRequest(ContentType(b.request), r.val)

\* send after the await: the ? on the result of the transport, then
\* decode_response and process_response.
SendAfterAwait(b, transport_result) ==
    IF transport_result.tag # "Ok" THEN transport_result
    ELSE LET d == decode_response(b.request, b.endpoint, transport_result.val)
         IN IF d.res.tag # "Ok" THEN d.res
            ELSE process_response(b.request, b.endpoint, d.res.val)

\* The builders of the two exchanges: a token request, the same with an
\* access token, and a pushed authorization request.
ConcurrentBuilders ==
    { RequestBuilder_new(Endpoint("token", TokenUri),
                         [base |-> b, layers |-> <<>>]) : b \in TokenBases }
    \cup { with_access_token(
               RequestBuilder_new(Endpoint("token", TokenUri),
                                  [base |-> b, layers |-> <<>>]),
               t, <<"mF_9.B5f-4.1JqM">>) : b \in TokenBases, t \in TokenTypes }
    \cup { RequestBuilder_new(Endpoint("pushed_authorization", ParUri),
                              [base |-> PushedBase, layers |-> <<>>]) }

\* What the transport answers: an error, and responses that differ in status,
\* Content-Type and body.
ConcurrentReplies ==
    {Err(TransportError)}
    \cup {Ok(HttpResponse(st, Some(APPLICATION_JSON), b)) :
            st \in {StatusOK, StatusCREATED}, b \in ResponseBodies}
    \cup {Ok(HttpResponse(StatusOK, None, Malformed))}

Exchanges == {1, 2}

\* An exchange before send.
Composed == [pc |-> "composed", outcome |-> NoResult]

\* The future of a send that reads the answer to the request sent last.
HttpClient_send_Latest(transport, k) == transport.replies[transport.latest]

\* The future of the send of exchange k: the answer to its own request.
HttpClient_send(transport, k) == transport.replies[k]

ConcurrentInit ==
    /\ input \in [Exchanges -> ConcurrentBuilders]
    /\ made = [k \in Exchanges |-> Composed]
    /\ scope = [requests |-> [k \in Exchanges |-> NoResult],
                replies |-> [k \in Exchanges |-> NoResult],
                latest |-> 1]
    /\ IdleExchange

\* send of exchange k up to the await: the request is in flight, or the
\* exchange has failed.
ExchangeSend(k) ==
    /\ made[k].pc = "composed"
    /\ LET r == SendUntilAwait(input[k])
       IN IF r.tag = "Ok"
          THEN /\ made' = [made EXCEPT ![k].pc = "awaiting"]
               /\ scope' = [scope EXCEPT !.requests[k] = r, !.latest = k]
          ELSE /\ made' = [made EXCEPT ![k] = [pc |-> "done", outcome |-> r]]
               /\ UNCHANGED scope
    /\ UNCHANGED input
    /\ UNCHANGED exchangeVars

\* The transport answers one of the requests in flight.
TransportAnswers(k) ==
    /\ made[k].pc = "awaiting"
    /\ scope.replies[k] = NoResult
    /\ \E r \in ConcurrentReplies : scope' = [scope EXCEPT !.replies[k] = r]
    /\ UNCHANGED <<input, made>>
    /\ UNCHANGED exchangeVars

\* send of exchange k after the await.
ExchangeResume(k) ==
    /\ made[k].pc = "awaiting"
    /\ scope.replies[k] # NoResult
    /\ HttpClient_send(scope, k) # NoResult
    /\ made' = [made EXCEPT ![k] =
                   [pc |-> "done",
                    outcome |-> SendAfterAwait(input[k], HttpClient_send(scope, k))]]
    /\ UNCHANGED <<input, scope>>
    /\ UNCHANGED exchangeVars

ConcurrentNext ==
    \/ \E k \in Exchanges : ExchangeSend(k)
    \/ \E k \in Exchanges : TransportAnswers(k)
    \/ \E k \in Exchanges : ExchangeResume(k)

ConcurrentSpec == ConcurrentInit /\ [][ConcurrentNext]_vars

----------------------------------------------------------------------------
(* The exchange pipeline.                                                  *)

StageOrder == <<"build_request", "encode", "send", "decode_response", "process_response">>

Failed(st) == st.tag \in {"Err", "Panic"}

C2_FirstErrorSurfaces ==
    \A i \in DOMAIN stages :
        Failed(stages[i]) =>
            /\ i = Len(stages)
            /\ pc \in {"replied", "done"}
            /\ pc = "replied" => stages[i].stage = "send" /\ result = NoResult
            /\ pc = "done" =>
                  /\ result.tag = stages[i].tag
                  /\ stages[i].tag = "Err" => result = Err(stages[i].err)
            /\ stages[i].stage = "build_request" => sent = <<>> /\ reply = NoResult
            /\ stages[i].stage = "send" =>
                  /\ stages[i].err = reply.val
                  /\ decoded = NoResult

\* The transport failed and send returned the transport's error.
C2_Witness ==
    /\ pc = "done"
    /\ Len(stages) = 3
    /\ stages[3].stage = "send"
    /\ stages[3].tag = "Err"
    /\ result = Err(TransportError)
    /\ builder.request.layers # <<>>

IsTokenOrPar == endpoint0.kind \in {"token", "pushed_authorization"}

\* C3: decode_response of a token request accepts status 200 only and that
\* of a pushed authorization request status 201 only; for every other status
\* s the result is ServerError(s) and neither the Content-Type header nor the
\* body was looked at.
C3_StatusGate ==
    (decoded # NoResult /\ IsTokenOrPar) =>
        LET s == reply.val.status
            expected == IF endpoint0.kind = "token" THEN 200 ELSE 201
        IN /\ s # expected =>
                 /\ decoded.res = Err(ServerError(s))
                 /\ decoded.inspected = <<"status">>
           /\ s = expected =>
                 ~(decoded.res.tag = "Err" /\ decoded.res.val.kind = "ServerError")
           /\ decoded.res.tag = "Ok" => s = expected

\* A pushed authorization request, inside two wrappers, got a 200.
C3_Witness ==
    /\ endpoint0.kind = "pushed_authorization"
    /\ Len(builder.request.layers) = 2
    /\ decoded # NoResult
    /\ reply.val.status = 200
    /\ decoded.res = Err(ServerError(200))

HasExpectedStatus ==
    reply.val.status = (IF endpoint0.kind = "token" THEN 200 ELSE 201)

\* C4: for a response with the expected status, the Content-Type check comes
\* before the body: it passes iff the header is there and starts with
\* application/json; when it does not pass the result is a Response error and
\* the body was not looked at; when it passes the body is deserialized, and a
\* body that does not deserialize gives a Response error; never a panic.
C4_ContentTypeGate ==
    (decoded # NoResult /\ IsTokenOrPar /\ HasExpectedStatus) =>
        LET h == reply.val.headers
            passes == /\ HeaderHas(h, "content-type")
                      /\ StartsWith(HeaderGet(h, "content-type"),
                                    <<"application", "/", "json">>)
        IN /\ decoded.res.tag \in {"Ok", "Err"}
           /\ decoded.res.tag = "Err" => decoded.res.val.kind = "Response"
           /\ ~passes =>
                 /\ decoded.res.tag = "Err"
                 /\ decoded.inspected = <<"status", "content_type">>
           /\ passes => decoded.inspected = <<"status", "content_type", "body">>
           /\ (passes /\ ~reply.val.body.wellformed) => decoded.res.tag = "Err"
           /\ decoded.res.tag = "Ok" => passes

\* A response whose Content-Type only starts with application/json decoded.
C4_Witness ==
    /\ decoded # NoResult
    /\ IsTokenOrPar
    /\ HasExpectedStatus
    /\ HeaderHas(reply.val.headers, "content-type")
    /\ HeaderGet(reply.val.headers, "content-type") = <<"application", "/", "json", "+", "ld">>
    /\ decoded.res.tag = "Ok"

----------------------------------------------------------------------------
(* Composition of the extension wrappers.                                  *)

\* The parameters a redirect request serializes, read back from the wire.
SerializedQuery(value) ==
    FormParse(FormEncodePairs(Serialize(build_query(value)).val))

\* The same two wrappers applied in the other order.
Swapped(value) == [value EXCEPT !.layers = <<@[2], @[1]>>]

\* An authorization request wrapped by with_state and with_pkce_challenge,
\* one call each, in either order.
StateAndPkceApplied ==
    /\ builder.endpoint.kind = "authorization"
    /\ Len(calls) = 2
    /\ {calls[1].op, calls[2].op} = {"with_state", "with_pkce_challenge"}

\* The state the caller passed to with_state.
GivenState ==
    LET i == CHOOSE j \in DOMAIN calls : calls[j].op = "with_state"
    IN calls[i].args[1]

\* What both orders have in common, whatever state was given: the same
\* parameter set, R's parameters, code_challenge and code_challenge_method
\* each exactly once.
SameSetWithPkce(a, b) ==
    /\ ParamSet(a) = ParamSet(b)
    /\ Len(a) = Len(b)
    /\ \A i \in DOMAIN base0.query :
          CountPair(a, base0.query[i]) = 1 /\ Count(a, base0.query[i][1]) = 1
    /\ \A k \in {<<"code_challenge">>, <<"code_challenge_method">>} : Count(a, k) = 1

\* C5 (as stated): with_state and with_pkce_challenge applied to R in either
\* order serialize the same set of query parameters, and that set holds R's
\* parameters, state, code_challenge and code_challenge_method, each exactly
\* once.
C5_StateAlwaysSerialized ==
    StateAndPkceApplied =>
        LET a == SerializedQuery(builder.request)
            b == SerializedQuery(Swapped(builder.request))
        IN SameSetWithPkce(a, b) /\ Count(a, <<"state">>) = 1

\* C5 (amended): with_state and with_pkce_challenge applied to R in either
\* order serialize the same set of query parameters; the set holds R's
\* parameters, code_challenge and code_challenge_method each exactly once,
\* and state exactly once with the given value when with_state was given
\* Some(state), not at all when it was given None; it holds nothing else.
C5_SameParameterSet ==
    StateAndPkceApplied =>
        LET a == SerializedQuery(builder.request)
            b == SerializedQuery(Swapped(builder.request))
        IN /\ SameSetWithPkce(a, b)
           /\ IF GivenState.some
              THEN CountPair(a, <<(<<"state">>), GivenState.val>>) = 1
                   /\ Count(a, <<"state">>) = 1
                   /\ Len(a) = Len(base0.query) + 3
              ELSE Count(a, <<"state">>) = 0
                   /\ Len(a) = Len(base0.query) + 2

\* with_pkce_challenge, then with_state(Some(..)), and the redirect URI built:
\* its query carries the state once, with the characters of the value escaped
\* on the wire.
C5_Witness ==
    /\ StateAndPkceApplied
    /\ calls[1].op = "with_pkce_challenge"
    /\ GivenState.some
    /\ pc = "done" /\ result.tag = "Ok"
    /\ Count(FormParse(result.val.query.val), <<"state">>) = 1
    /\ \E i \in DOMAIN result.val.query.val : result.val.query.val[i] = "%7E"

\* C6 (as stated): a wrapper fails in build_request, decode_response or
\* process_response only when the same operation of its inner value fails,
\* and then with the inner's error; when the inner succeeds the wrapper
\* succeeds, and decode_response and process_response return the inner's
\* result.
C6_WrappersAddNoFailure ==
    (CanSend /\ builder.request.layers # <<>>) =>
        LET req == builder.request
            ep == builder.endpoint
            innerBuilt == build_request(Inner(req), ep)
            outerBuilt == build_request(req, ep)
        IN /\ innerBuilt.tag = "Ok" => outerBuilt.tag = "Ok"
           /\ innerBuilt.tag # "Ok" => outerBuilt = innerBuilt
           /\ \A r \in Replies :
                 r.tag = "Ok" =>
                    LET d == decode_response(req, ep, r.val)
                    IN /\ d = decode_response(Inner(req), ep, r.val)
                       /\ d.res.tag = "Ok" =>
                             process_response(req, ep, d.res.val)
                                 = process_response(Inner(req), ep, d.res.val)

\* The token type and the access token the last with_access_token was given.
LastCall == calls[Len(calls)]

\* C7: whenever WithAccessToken::build_request returns a request, that
\* request has the method, the URI, the body and every header other than
\* Authorization of the request its inner value built, and exactly one
\* Authorization value, "{token_type} {access_token}".
C7_OnlyAuthorizationHeader ==
    (pc = "encode" /\ calls # <<>> /\ LastCall.op = "with_access_token") =>
        LET inner == build_request(Inner(builder.request), builder.endpoint)
        IN /\ inner.tag = "Ok"
           /\ built.method = inner.val.method
           /\ built.uri = inner.val.uri
           /\ built.body = inner.val.body
           /\ HeaderRemove(built.headers, "authorization")
                 = HeaderRemove(inner.val.headers, "authorization")
           /\ Cardinality({i \in DOMAIN built.headers :
                              built.headers[i][1] = "authorization"}) = 1
           /\ HeaderGet(built.headers, "authorization")
                 = LastCall.args[1] \o <<" ">> \o LastCall.args[2]

\* with_access_token around a request that already carries an Authorization
\* and a Content-Type header, and around a body wrapped by another extension.
C7_Witness ==
    /\ pc = "encode"
    /\ Len(calls) = 2
    /\ calls[1].op = "with_pkce_verifier"
    /\ LastCall.op = "with_access_token"
    /\ base0.kind = "Other"
    /\ HeaderHas(base0.headers, "authorization")
    /\ HeaderHas(built.headers, "content-type")
    /\ built.body.layers # <<>>

\* The wrapper a with_* call builds from its arguments.
WrapperOf(call) ==
    CASE call.op = "with_state" ->
            IF call.args[1].some
            THEN [w |-> "Stateful", some |-> TRUE, p |-> call.args[1].val, q |-> <<>>]
            ELSE [w |-> "Stateful", some |-> FALSE, p |-> <<>>, q |-> <<>>]
      [] call.op = "with_pkce_challenge" ->
            [w |-> "WithPkceChallenge", some |-> TRUE,
             p |-> call.args[1].challenge, q |-> call.args[1].method]
      [] call.op = "with_pkce_verifier" ->
            [w |-> "WithPkceVerifier", some |-> TRUE, p |-> call.args[1], q |-> <<>>]
      [] call.op = "with_authorization_details" ->
            [w |-> "WithAuthorizationDetails", some |-> TRUE,
             p |-> call.args[1], q |-> <<>>]
      [] call.op = "with_access_token" ->
            [w |-> "WithAccessToken", some |-> TRUE,
             p |-> call.args[1], q |-> call.args[2]]

\* C8: after any sequence of n with_* calls the builder targets the endpoint
\* it was created for and its value is the unchanged base request inside
\* exactly n wrappers, the i-th wrapper from the inside being the one the
\* i-th call built.
C8_ChainFollowsCalls ==
    /\ builder.endpoint = endpoint0
    /\ builder.request.base = base0
    /\ Len(builder.request.layers) = Len(calls)
    /\ \A i \in DOMAIN calls : builder.request.layers[i] = WrapperOf(calls[i])

\* Two different extensions applied one after the other, and the request sent.
C8_Witness ==
    /\ Len(calls) = 2
    /\ calls[1].op = "with_state"
    /\ calls[2].op = "with_access_token"
    /\ builder.request.layers[2].w = "WithAccessToken"
    /\ pc = "done"

----------------------------------------------------------------------------
(* The wire format of token and PAR requests, and the PAR redirect.        *)

\* C9: every request handed to the transport for a token request or a pushed
\* authorization request has method POST, the URI of the endpoint and
\* application/x-www-form-urlencoded as its only Content-Type, whatever
\* wrappers surround the base request.
C9_FormPost ==
    IsTokenOrPar =>
        \A i \in DOMAIN sent :
            /\ sent[i].method = "POST"
            /\ sent[i].uri = endpoint0.uri
            /\ HeaderValues(sent[i].headers, "content-type")
                  = {APPLICATION_X_WWW_FORM_URLENCODED}

\* A pushed authorization request inside with_state and with_access_token,
\* handed to the transport with its Authorization header.
C9_Witness ==
    /\ endpoint0.kind = "pushed_authorization"
    /\ Len(sent) = 1
    /\ Len(calls) = 2
    /\ calls[1].op = "with_state"
    /\ calls[2].op = "with_access_token"
    /\ HeaderHas(sent[1].headers, "authorization")
    /\ sent[1].uri.query = Some(<<"tenant", "=", "t1">>)

\* The parameters of the URI for_endpoint returned, read from its query.
RedirectParams == FormParse(QueryOrDefault(redirect.uri.val))

\* C10 (as stated): for any pushed authorization response and any
\* authorization endpoint URI, for_endpoint returns the URI with scheme,
\* authority and path unchanged and a query whose parameters are exactly
\* those the URI had plus client_id and request_uri, each once, and none of
\* the parameters of the phase-1 request.
C10_ForEndpointQuery ==
    pc = "redirected" =>
        /\ redirect.uri.tag = "Ok"
        /\ LET uri == redirect.uri.val
               before == FormParse(QueryOrDefault(redirect.endpoint.uri))
               after == RedirectParams
               clientId == <<(<<"client_id">>), redirect.endpoint.client_id>>
               requestUri == <<(<<"request_uri">>), result.val.request_uri>>
           IN /\ uri.scheme = redirect.endpoint.uri.scheme
              /\ uri.authority = redirect.endpoint.uri.authority
              /\ uri.path = redirect.endpoint.uri.path
              /\ ParamSet(after) = ParamSet(before) \cup {clientId, requestUri}
              /\ Len(after) = Len(before) + 2
              /\ Count(after, <<"client_id">>) = 1
              /\ Count(after, <<"request_uri">>) = 1
              /\ \A k \in Keys(AuthorizationParams) \ {<<"client_id">>} :
                    Count(after, k) = 0

----------------------------------------------------------------------------
(* Redirect requests.                                                      *)

\* The parameters a with_* call contributes to a request.
ParamsOf(call) ==
    CASE call.op = "with_state" ->
            IF call.args[1].some
            THEN << <<(<<"state">>), call.args[1].val>> >> ELSE <<>>
      [] call.op = "with_pkce_challenge" ->
            << <<(<<"code_challenge">>), call.args[1].challenge>>,
               <<(<<"code_challenge_method">>), call.args[1].method>> >>
      [] call.op = "with_pkce_verifier" ->
            << <<(<<"code_verifier">>), call.args[1]>> >>
      [] call.op = "with_authorization_details" ->
            << <<(<<"authorization_details">>), call.args[1]>> >>
      [] call.op = "with_access_token" -> <<>>

\* The parameters of the composed request: the base's, then every call's.
RECURSIVE ComposedParams(_)
ComposedParams(cs) ==
    IF cs = <<>> THEN base0.query
    ELSE ComposedParams(SubSeq(cs, 1, Len(cs) - 1)) \o ParamsOf(cs[Len(cs)])

\* C11 (as stated): into_redirect_uri hands nothing to the transport and
\* returns the endpoint URI with scheme, authority and path unchanged and a
\* query that holds every parameter the endpoint URI had and every parameter
\* of the composed request (the base's and each extension's), as often as
\* they occur there.
C11_RedirectKeepsAndAdds ==
    (pc = "done" /\ endpoint0.kind = "authorization") =>
        /\ sent = <<>> /\ stages = <<>> /\ reply = NoResult
        /\ result.tag = "Ok"
        /\ LET before == FormParse(QueryOrDefault(endpoint0.uri))
               added == ComposedParams(calls)
               after == FormParse(QueryOrDefault(result.val))
           IN /\ result.val.scheme = endpoint0.uri.scheme
              /\ result.val.authority = endpoint0.uri.authority
              /\ result.val.path = endpoint0.uri.path
              /\ \A p \in ParamSet(before) \cup ParamSet(added) \cup ParamSet(after) :
                    CountPair(after, p) = CountPair(before, p) + CountPair(added, p)

----------------------------------------------------------------------------
(* PKCE.                                                                   *)

\* The calls of transform in the log.
Transforms == {i \in DOMAIN made : made[i].op = "transform"}

\* C12: for every valid code verifier, transform(Plain) returns the verifier
\* itself, and transform(S256) returns the same challenge every time it is
\* given the same verifier, a challenge that PkceCodeChallenge validation
\* accepts.
C12_TransformOfValidVerifier ==
    \A i \in Transforms :
        LET call == made[i]
        IN /\ PkceCodeVerifier_validate_bytes(call.arg.verifier)
           /\ call.res.tag = "Ok"
           /\ call.arg.method = "plain" => call.res.val = call.arg.verifier
           /\ call.arg.method = "S256" =>
                 /\ PkceCodeChallenge_validate_bytes(call.res.val)
                 /\ \A j \in Transforms :
                       made[j].arg = call.arg => made[j].res = call.res

\* A verifier of the greatest length, transformed twice with S256 and once
\* with plain: a challenge of 43 characters that is not the verifier.
C12_Witness ==
    /\ Len(made) = 3
    /\ made[1].op = "PkceCodeVerifier::new"
    /\ Len(made[1].arg) = 128
    /\ made[2].op = "transform" /\ made[2].arg.method = "S256"
    /\ made[3].op = "transform" /\ made[3].arg = made[2].arg
    /\ Len(made[3].res.val) = 43
    /\ made[3].res.val # made[3].arg.verifier
    /\ \E k \in 1..43 : made[3].res.val[k] = "_"

\* The request of the authorization step, once it has left the client: the
\* redirect URI that was built, or the pushed authorization request that was
\* handed to the transport.
AtAuthorizationStep ==
    \/ pc = "done" /\ endpoint0.kind = "authorization" /\ result.tag = "Ok"
    \/ endpoint0.kind = "pushed_authorization" /\ sent # <<>>

\* A token request that was handed to the transport.
AtTokenStep == endpoint0.kind = "token" /\ sent # <<>>

\* The parameters that request carries.
TransmittedParams ==
    IF endpoint0.kind = "authorization"
    THEN FormParse(QueryOrDefault(result.val))
    ELSE FormParse(sent[1].body)

CallsOf(op) == {i \in DOMAIN calls : calls[i].op = op}

\* The verifier the client holds.
HeldVerifier == CHOOSE v \in PkceVerifiers : TRUE

C14_RandomVerifier ==
    \A i \in DOMAIN made :
        made[i].op = "new_random_len" =>
            IF made[i].arg >= 32 /\ made[i].arg <= 96
            THEN /\ made[i].res.tag = "Ok"
                 /\ Len(made[i].res.val) >= 43 /\ Len(made[i].res.val) <= 128
                 /\ \A k \in DOMAIN made[i].res.val :
                       made[i].res.val[k] \in AsciiAlphanumeric \cup {"-", "_"}
                 /\ PkceCodeVerifier_validate_bytes(made[i].res.val)
                 /\ made[i].arg = 32 => Len(made[i].res.val) = 43
                 /\ made[i].arg = 96 => Len(made[i].res.val) = 128
            ELSE made[i].res.tag = "Panic"

\* new_random_len(96) on bytes of all one bits: 128 characters that end in
\* _, which the caller then transforms.
C14_Witness ==
    /\ Len(made) >= 2
    /\ made[1].op = "new_random_len" /\ made[1].arg = 96
    /\ made[1].res.tag = "Ok" /\ Len(made[1].res.val) = 128
    /\ made[1].res.val[128] = "_"
    /\ made[2].op = "transform" /\ made[2].arg.verifier = made[1].res.val

\* The grammar of RFC 7636: 43 to 128 characters, each a letter, a digit or
\* one of - . _ ~
Unreserved == AsciiAlphanumeric \cup {"-", ".", "_", "~"}
CodeGrammar(t) ==
    /\ Len(t) >= 43 /\ Len(t) <= 128
    /\ \A k \in DOMAIN t : t[k] \in Unreserved

\* C15: PkceCodeVerifier and PkceCodeChallenge validation accept the same
\* texts, those of 43 to 128 characters that are letters, digits or one of
\* - . _ ~, so that a verifier taken as a challenge (the plain transform) is a
\* valid challenge.
C15_OneGrammar ==
    /\ input.kind = "text" =>
          /\ PkceCodeVerifier_validate_bytes(input.text) = CodeGrammar(input.text)
          /\ PkceCodeChallenge_validate_bytes(input.text) = CodeGrammar(input.text)
    /\ \A i \in DOMAIN made :
          /\ made[i].op \in {"PkceCodeVerifier::new", "PkceCodeChallenge::new"} =>
                /\ (made[i].res.tag = "Ok") = CodeGrammar(made[i].arg)
                /\ made[i].res.val = made[i].arg
          /\ (made[i].op = "transform" /\ made[i].arg.method = "plain") =>
                /\ CodeGrammar(made[i].res.val)
                /\ PkceCodeChallenge_new(made[i].res.val) = Ok(made[i].arg.verifier)

\* A text of 128 characters that ends in ~ accepted as a verifier and as a
\* challenge, and taken as a challenge by the plain transform.
C15_Witness ==
    /\ Len(made) = 3
    /\ Len(input.text) = 128
    /\ input.text[1] = "~"
    /\ made[1].op = "PkceCodeVerifier::new" /\ made[1].res.tag = "Ok"
    /\ made[2].op = "PkceCodeChallenge::new" /\ made[2].res.tag = "Ok"
    /\ made[3].op = "transform" /\ made[3].arg.method = "plain"

----------------------------------------------------------------------------
(* The string types.                                                       *)

\* The bytes 0x20..=0x7E, and the NQCHAR bytes of RFC 6749.
VscharBytes == 32..126
NqcharBytes == {33} \cup (35..91) \cup (93..126)

AllIn(bytes, S) == \A i \in DOMAIN bytes : bytes[i] \in S

\* C16: AccessToken, Code and State accept a byte string exactly when it has
\* at least one byte and every byte is in 0x20..=0x7E; ClientId accepts a
\* byte string exactly when every byte is in 0x20..=0x7E, the empty string
\* included; as_str of the value constructed is the input.
C16_VscharTypes ==
    \A i \in DOMAIN made :
        LET call == made[i]
        IN /\ call.op \in {"AccessToken", "Code", "State"} =>
                  (call.res.tag = "Ok" <=>
                      Len(call.arg) >= 1 /\ AllIn(call.arg, VscharBytes))
           /\ call.op = "ClientId" =>
                  (call.res.tag = "Ok" <=> AllIn(call.arg, VscharBytes))
           /\ (/\ call.op \in {"AccessToken", "Code", "State", "ClientId"}
               /\ call.res.tag = "Ok") => as_str(call.res.val) = call.arg

\* The empty string was given to ClientId::new, which accepted it.
C16_Witness ==
    \E i \in DOMAIN made :
        /\ made[i].op = "ClientId"
        /\ made[i].arg = <<>>
        /\ made[i].res = Ok(<<>>)

\* C17: ScopeToken::new succeeds exactly for the strings of one or more
\* NQCHAR characters, and as_str of the value is the input.
C17_ScopeTokenGrammar ==
    \A i \in DOMAIN made :
        made[i].op = "ScopeToken" =>
            /\ made[i].res.tag = "Ok" <=>
                   Len(made[i].arg) >= 1 /\ AllIn(made[i].arg, NqcharBytes)
            /\ made[i].res.tag = "Ok" => as_str(made[i].res.val) = made[i].arg

\* One or more non-empty tokens of NQCHAR bytes, one space between two.
ScopeGrammar(bytes) ==
    /\ bytes # <<>>
    /\ AllIn(bytes, NqcharBytes \cup {32})
    /\ bytes[1] # 32
    /\ bytes[Len(bytes)] # 32
    /\ \A i \in 1..(Len(bytes) - 1) : ~(bytes[i] = 32 /\ bytes[i + 1] = 32)

\* C18: Scope::validate_bytes accepts a byte string exactly when it is one or
\* more non-empty tokens of NQCHAR bytes separated by one space each.
C18_ScopeGrammar ==
    \A i \in DOMAIN made :
        made[i].op = "Scope" =>
            (made[i].res.tag = "Ok" <=> ScopeGrammar(made[i].arg))

\* A scope of three tokens was accepted.
C18_Witness ==
    \E i \in DOMAIN made :
        /\ made[i].op = "Scope"
        /\ made[i].arg = <<97, 32, 97, 97, 32, 33>>
        /\ made[i].res.tag = "Ok"

\* The calls of insert in the log.
Inserts == {i \in DOMAIN made : made[i].op = "insert"}

\* The tokens of a scope text, cut at the spaces from left to right.
RECURSIVE TokensOf(_)
TokensOf(text) ==
    IF \A i \in DOMAIN text : text[i] # 32 THEN <<text>>
    ELSE LET k == CHOOSE i \in DOMAIN text :
                      text[i] = 32 /\ \A j \in 1..(i - 1) : text[j] # 32
         IN <<SubSeq(text, 1, k - 1)>> \o TokensOf(SubSeq(text, k + 1, Len(text)))

\* How many times a token occurs among the tokens of a scope text.
Occurrences(text, token) ==
    Cardinality({i \in DOMAIN TokensOf(text) : TokensOf(text)[i] = token})

\* C19: insert returns false and leaves the scope as it is when the scope
\* holds the token; otherwise it returns true and the scope becomes the old
\* scope, one space and the token, so the earlier tokens keep their order
\* and no token occurs once more than before; a later insert of the same
\* token returns false.
C19_InsertOnce ==
    \A i \in Inserts :
        LET before == made[i].arg.scope
            token == made[i].arg.token
            after == made[i].res.scope
        IN /\ Occurrences(before, token) > 0 =>
                  made[i].res.ret = FALSE /\ after = before
           /\ Occurrences(before, token) = 0 =>
                  /\ made[i].res.ret = TRUE
                  /\ after = before \o <<32>> \o token
                  /\ TokensOf(after) = Append(TokensOf(before), token)
                  /\ Occurrences(after, token) = 1
           /\ \A j \in Inserts :
                  j > i /\ made[j].arg.token = token =>
                      made[j].res.ret = FALSE /\ made[j].res.scope = made[j].arg.scope
           /\ i = Len(made) => scope = Some(after)

\* The token "a" was inserted into a scope that holds "aa" and not "a", and
\* then inserted again.
C19_Witness ==
    \E i, j \in Inserts :
        /\ j > i
        /\ made[i].arg.token = <<97>>
        /\ made[j].arg.token = <<97>>
        /\ Occurrences(made[i].arg.scope, <<97, 97>>) > 0
        /\ made[i].res.ret = TRUE
        /\ made[j].res.ret = FALSE

\* The tokens joined, one space between two.
RECURSIVE Joined(_)
Joined(tokens) ==
    IF tokens = <<>> THEN <<>>
    ELSE IF Len(tokens) = 1 THEN tokens[1]
    ELSE tokens[1] \o <<32>> \o Joined(Tail(tokens))

\* C20: from_tokens returns None exactly for the empty sequence; for any
\* other sequence it returns the tokens in their order joined by single
\* spaces, which is a valid Scope and not the empty string.
C20_FromTokens ==
    \A i \in DOMAIN made :
        made[i].op = "from_tokens" =>
            /\ made[i].res = None <=> made[i].arg = <<>>
            /\ made[i].arg # <<>> =>
                   /\ made[i].res = Some(Joined(made[i].arg))
                   /\ Scope_validate_bytes(made[i].res.val)
                   /\ made[i].res.val # <<>>
                   /\ TokensOf(made[i].res.val) = made[i].arg

\* from_tokens was given no token and returned None.
C20_Witness ==
    \E i \in DOMAIN made :
        /\ made[i].op = "from_tokens"
        /\ made[i].arg = <<>>
        /\ made[i].res = None

\* C21: every StateBuf returned by new_random_len, for every len, and by
\* new_random satisfies State::validate_bytes.
C21_RandomStateValid ==
    \A i \in DOMAIN made :
        made[i].op \in {"StateBuf::new_random_len", "StateBuf::new_random"} =>
            State_validate_bytes(as_bytes(made[i].res))

----------------------------------------------------------------------------
(* Discovery.                                                              *)

\* C22: well_known_uri returns a URI with the scheme, authority, query and
\* fragment of the base URL, whose path segments are those of the well-known
\* reference followed by those of the base URL; for the base
\* https://issuer.example.com/tenant that is
\* https://issuer.example.com/<well-known path>/tenant, and for a base with
\* an empty path https://issuer.example.com/<well-known path>.
C22_WellKnownUri ==
    \A i \in DOMAIN made :
        made[i].op = "well_known_uri" =>
            LET base == made[i].arg.base_url
                segments == Path_segments(PathOf(made[i].arg.well_known))
                well_known_path ==
                    <<"/">> \o segments[1] \o <<"/">> \o segments[2]
                uri == made[i].res
            IN /\ Uri_scheme(uri) = Uri_scheme(base)
               /\ Uri_authority(uri) = Uri_authority(base)
               /\ Uri_query(uri) = Uri_query(base)
               /\ Uri_fragment(uri) = Uri_fragment(base)
               /\ Path_segments(Uri_path(uri))
                      = segments \o Path_segments(Uri_path(base))
               /\ base = IssuerHost \o <<"/", "t", "enant">> =>
                      uri = IssuerHost \o well_known_path \o <<"/", "t", "enant">>
               /\ base = IssuerHost => uri = IssuerHost \o well_known_path

\* well_known_uri was called with the base https://issuer.example.com/tenant.
C22_Witness ==
    \E i \in DOMAIN made :
        /\ made[i].op = "well_known_uri"
        /\ made[i].arg.base_url = IssuerHost \o <<"/", "t", "enant">>
        /\ made[i].arg.well_known = WELL_KNOWN_URI_REF
        /\ Path_segments(Uri_path(made[i].res))
               = << <<".well-known">>, <<"oauth-authorization-server">>,
                    <<"t", "enant">> >>

\* C23: discover returns metadata only when the response has status 200, a
\* Content-Type that starts with application/json, a body that deserializes
\* and an issuer equal byte for byte to the base URL; an issuer that differs
\* gives a Response error and another status s gives ServerError(s).
C23_IssuerByteForByte ==
    Len(made) = 3 /\ made[3].op = "discover" /\ made[2].res.tag = "Ok" =>
        LET response == made[2].res.val
            base == made[3].arg
            res == made[3].res
            deserializes ==
                from_slice_AuthorizationServerMetadata(response.body).tag = "Ok"
        IN /\ res.tag = "Ok" =>
                  /\ response.status = 200
                  /\ HeaderHas(response.headers, "content-type")
                  /\ StartsWith(HeaderGet(response.headers, "content-type"),
                                <<"application", "/", "json">>)
                  /\ deserializes
                  /\ Member(response.body, "issuer").s = base
                  /\ res.val.issuer = base
           /\ response.status # 200 => res = Err(ServerError(response.status))
           /\ (/\ response.status = 200
               /\ expect_content_type(response.headers, APPLICATION_JSON).tag = "Ok"
               /\ deserializes
               /\ Member(response.body, "issuer").s # base) =>
                  res.tag = "Err" /\ res.val.kind = "Response"

----------------------------------------------------------------------------
(* The exchange, continued.                                                *)

\* The layers of the composed request that carry authorization details.
DetailLayers ==
    {i \in DOMAIN builder.request.layers :
        /\ builder.request.layers[i].w = "WithAuthorizationDetails"
        /\ builder.request.layers[i].p # <<>>}

\* The composed request without those layers.
WithoutDetails ==
    LET Other(layer) == layer.w # "WithAuthorizationDetails"
    IN [builder.request EXCEPT !.layers = SelectSeq(builder.request.layers, Other)]

\* C24: when a request extended with with_authorization_details is encoded as
\* a form (the body of a token or PAR request, or the query of a redirect),
\* encoding does not fail and the detail objects are in one
\* authorization_details field, next to the fields of the inner request.
C24_DetailsAsJsonField ==
    Cardinality(DetailLayers) = 1 =>
        /\ \A i \in DOMAIN stages :
               stages[i].stage = "encode" => stages[i].tag = "Ok"
        /\ pc = "transport" =>
               /\ Count(FormParse(built.body), <<"authorization_details">>) = 1
               /\ LET inner == EncodeRequest(ContentType(WithoutDetails),
                                build_request(WithoutDetails, builder.endpoint).val)
                  IN ParamSet(FormParse(inner.val.body))
                         \subseteq ParamSet(FormParse(built.body))
        /\ (pc = "done" /\ stages = <<>>) => result.tag = "Ok"

\* What send returns for a builder run alone when the transport gives the
\* answer a: the failure before the transport if there is one.
Alone(b, a) ==
    IF SendUntilAwait(b).tag # "Ok" THEN SendUntilAwait(b)
    ELSE SendAfterAwait(b, a)

SendStarted == stages # <<>>
SendReturned == pc \in {"done", "redirected"} /\ result # NoResult

PushedRequest ==
    [base |-> base0.inner.base,
     layers |-> base0.inner.layers \o builder.request.layers]

\* The parameters the redirect URI of that request adds to an authorization
\* endpoint that has none of its own.
RedirectAdds ==
    ParamSet(FormParse(QueryOrDefault(
        redirect_uri(PushedRequest,
                     Endpoint("authorization",
                              Uri("https", "as.example", "/authorize", None))).val)))

\* C27: the body that Pushed(R) posts to the PAR endpoint is R.build_query():
\* the parameters the redirect URI of R would add to the query of the
\* authorization endpoint, and none from the query of the PAR endpoint URI.
C27_PushedBodyIsBuildQuery ==
    (endpoint0.kind = "pushed_authorization" /\ IsRedirectRequest(builder.request)) =>
        /\ (pc = "encode" /\ builder.request.layers = <<>>) =>
               built.body = build_query(base0.inner)
        /\ sent # <<>> =>
               /\ ParamSet(FormParse(sent[1].body)) = RedirectAdds
               /\ Count(FormParse(sent[1].body), <<"tenant">>) = 0
               /\ sent[1].uri = ParUri

\* Pushed(R) was posted for an R that carries a state and a PKCE challenge.
C27_Witness ==
    /\ endpoint0.kind = "pushed_authorization"
    /\ Len(base0.inner.layers) = 2
    /\ builder.request.layers = <<>>
    /\ sent # <<>>
    /\ Count(FormParse(sent[1].body), <<"code_challenge">>) = 1
    /\ Count(FormParse(sent[1].body), <<"state">>) = 1

----------------------------------------------------------------------------
(* The scope, continued.                                                   *)

\* C28: every token that iterating a valid Scope yields satisfies
\* ScopeToken::validate_bytes, so ScopeIter::next makes no ScopeToken that
\* ScopeToken::new would reject.
C28_IteratedTokensValid ==
    scope.some =>
        \A i \in DOMAIN Scope_iter(scope.val) :
            ScopeToken_validate_bytes(Scope_iter(scope.val)[i])

\* The calls of insert and extend in the log.
Mutations == {i \in DOMAIN made : made[i].op \in {"insert", "extend"}}

\* C29: from a valid ScopeBuf, after any calls of insert and extend the value
\* still satisfies Scope::validate_bytes, every token that was there is still
\* there, in its place, and a token that occurred at most once occurs at most
\* once.
C29_ScopeStaysValid ==
    \A i \in Mutations :
        LET before == made[i].arg.scope
            after == made[i].res.scope
        IN /\ Scope_validate_bytes(before) => Scope_validate_bytes(after)
           /\ ScopeGrammar(after)
           /\ SubSeq(TokensOf(after), 1, Len(TokensOf(before))) = TokensOf(before)
           /\ \A t \in Range(TokensOf(after)) :
                  Occurrences(before, t) <= 1 => Occurrences(after, t) <= 1
           /\ i = Len(made) => scope = Some(after)

\* extend was called with the same new token twice on a scope that holds
\* another, and put it there once.
C29_Witness ==
    \E i \in Mutations :
        /\ made[i].op = "extend"
        /\ made[i].arg.tokens = << <<97>>, <<97>> >>
        /\ Occurrences(made[i].arg.scope, <<97, 97>>) = 1
        /\ Occurrences(made[i].arg.scope, <<97>>) = 0
        /\ Occurrences(made[i].res.scope, <<97>>) = 1

-----------------------------------------------------------------------------
(* The order of header injection.                                          *)

\* The positions of the WithAccessToken layers of the request being sent.
AccessTokenLayers ==
    {i \in DOMAIN builder.request.layers :
        builder.request.layers[i].w = "WithAccessToken"}

\* The WithAccessToken applied last.
OutermostAccessToken ==
    builder.request.layers[CHOOSE i \in AccessTokenLayers :
                               \A j \in AccessTokenLayers : j <= i]

HeaderCount(h, name) == Cardinality({i \in DOMAIN h : h[i][1] = name})

\* C30: the headers are set in one order. The wrappers run innermost first,
\* so the request build_request returns, and the one handed to the transport,
\* carries exactly one Authorization value, that of the outermost
\* WithAccessToken, whatever the inner layers and the base request set; and
\* the Content-Type send sets after build_request replaces the Content-Type a
\* layer set and leaves every other header, Authorization included, as
\* build_request returned it.
C30_HeaderOrder ==
    /\ (pc \in {"encode", "transport"} /\ AccessTokenLayers # {}) =>
          /\ HeaderCount(built.headers, "authorization") = 1
          /\ HeaderGet(built.headers, "authorization")
                = AuthorizationValue(OutermostAccessToken)
    /\ pc = "transport" =>
          LET r == build_request(builder.request, builder.endpoint)
              value == ContentTypeValue(ContentType(builder.request))
          IN /\ r.tag = "Ok"
             /\ HeaderRemove(built.headers, "content-type")
                   = HeaderRemove(r.val.headers, "content-type")
             /\ IF value.tag = "Ok"
                THEN /\ HeaderCount(built.headers, "content-type") = 1
                     /\ HeaderGet(built.headers, "content-type") = value.val
                ELSE built.headers = r.val.headers

\* with_access_token was applied twice with different tokens to a request
\* whose own build_request sets an Authorization and a Content-Type header,
\* and the request has been encoded.
C30_Witness ==
    /\ pc = "transport"
    /\ Len(builder.request.layers) = 2
    /\ AccessTokenLayers = {1, 2}
    /\ AuthorizationValue(builder.request.layers[1])
          # AuthorizationValue(builder.request.layers[2])
    /\ base0.kind = "Other"
    /\ HeaderHas(base0.headers, "authorization")
    /\ HeaderGet(base0.headers, "content-type") # HeaderGet(built.headers, "content-type")

============================================================================
